---- MODULE Spec2Model ----
(***************************************************************************)
(* GhostWalk: a model of the dual-band firmware with mesh relay            *)
(* (src/unnamed/part_003, lines 930-2061).  The main task is loop(); the   *)
(* RX callbacks run in the driver's context and interleave with it.        *)
(* Time is the millis() clock, observed at a resolution of TickMs.         *)
(***************************************************************************)
EXTENDS Integers, Sequences, FiniteSets, TLC

\* ------------------------------------------------------------------------
\* Configuration (part_003:943-996)
\* ------------------------------------------------------------------------
ENABLE_PASSIVE_SCAN == TRUE
ENABLE_SSID_REPLICATION == TRUE
ENABLE_LIFECYCLE_SIM == TRUE
ENABLE_SEQUENCE_GAPS == TRUE
ENABLE_BEACON_EMULATION == TRUE
ENABLE_INTERACTION_SIM == TRUE
ENABLE_MESH_RELAY == TRUE

MESH_CHANNEL == 1
MESH_ACTIVE_INTERVAL_MS == 600000
MESH_STANDBY_INTERVAL_MS == 20000
MESH_CHECK_DURATION_MS == 100
MESH_RELAY_CHANCE == 5
MESH_DECAY_TIMEOUT_MS == 600000
MAX_MESH_QUEUE_SIZE == 40
SENDER_TRACK_WINDOW_MS == 300000

TARGET_ACTIVE_POOL == 1500
TARGET_DORMANT_POOL == 3000
MAX_SSIDS_TO_LEARN == 200
CYCLE_CAP_BUFFER == 5
LEARN_INTERVAL_MS == 2400
CYCLE_INTERVAL_MS == 10000

MIN_PACKETS_PER_HOP == 20
MAX_PACKETS_PER_HOP == 45

POWER_LEVELS == <<72, 74, 76, 78, 80, 82>>
MIN_TX_POWER == 72
MAX_TX_POWER == 82

CHANNELS_2G == <<1, 6, 11, 2, 7, 3, 8, 4, 9, 5, 10>>
CHANNELS_5G == <<36, 149, 40, 153, 44, 157, 48, 161, 165>>
NUM_CHANNELS_2G == 11
NUM_CHANNELS_5G == 9

\* xQueueCreate(20, ...) and xQueueCreate(5, ...) in setup()
SSID_QUEUE_LENGTH == 20
MESH_QUEUE_LENGTH == 5

\* enum DeviceGen, enum OSPlatform
GEN_LEGACY == "GEN_LEGACY"
GEN_COMMON == "GEN_COMMON"
GEN_MODERN == "GEN_MODERN"
PLATFORM_IOS == "PLATFORM_IOS"
PLATFORM_ANDROID == "PLATFORM_ANDROID"
PLATFORM_OTHER == "PLATFORM_OTHER"

SEED_SSIDS ==
    << "xfinitywifi", "Starbucks WiFi", "attwifi", "Google Starbucks",
       "iPhone", "AndroidAP", "Guest", "linksys", "netgear",
       "Free Public WiFi", "T-Mobile", "Home", "Office",
       "Spectrum", "optimumwifi", "CoxWiFi", "Lowe's Wi-Fi",
       "Target Guest Wi-Fi", "McDonalds Free WiFi", "BURGER KING FREE WIFI",
       "Subway WiFi", "PaneraBread_WiFi", "Airport_Free_WiFi",
       "Marriott_Guest", "Hilton_Honors", "Walmart_WiFi",
       "DIRECTV_WIFI", "HP-Print-B2-LaserJet", "Roku-829", "Sonos_WiFi" >>
NUM_SEED_SSIDS == 30

\* --- SANITIZED PAYLOADS (part_003:1138-1148), bytes in decimal ---
HT_CAPS_PAYLOAD ==
    <<239, 1, 27, 255, 255, 0, 0, 0, 0, 0, 0, 0, 0, 0, 0, 1, 0, 0, 0, 0, 0, 0, 0, 0, 0>>
VHT_CAPS_PAYLOAD == <<145, 89, 130, 15, 234, 255, 0, 0, 234, 255, 0, 0>>
HE_CAPS_PAYLOAD ==
    <<35, 9, 1, 0, 2, 64, 0, 4, 112, 12, 137, 127, 3, 128, 4, 0, 0, 0, 170, 170, 170, 170>>
APPLE_VEND_PAYLOAD == <<0, 23, 242, 10, 0, 1, 4>>
WFA_VEND_PAYLOAD == <<0, 10, 24, 2, 0, 0, 28, 0, 0>>
RSN_PAYLOAD ==
    <<1, 0, 0, 15, 172, 4, 1, 0, 0, 15, 172, 4, 1, 0, 0, 15, 172, 2, 0, 0>>
RATES_LEGACY == <<130, 132, 139, 150>>
RATES_MODERN_2G == <<2, 4, 11, 22, 12, 18, 24, 36>>
RATES_5G == <<12, 18, 24, 36, 48, 72, 96, 108>>
EXT_CAP_APPLE == <<0, 0, 8, 0, 0, 0, 0, 64>>
EXT_CAP_ANDROID == <<4, 0, 8, 0, 0, 0, 0, 64>>

\* ------------------------------------------------------------------------
\* Bounds of the model
\* ------------------------------------------------------------------------
\* resolution at which the model observes millis()
TickMs == 20000
\* the clock stops advancing at MaxTicks * TickMs
MaxTicks == 64
\* probe requests of virtual devices in one behaviour
MaxProbes == 2
\* interaction sequences in one behaviour
MaxInteractions == 1
\* processLifecycle calls in one behaviour of the scheduler
MaxRotations == 3
\* processLifecycle calls in one behaviour of the pools
MaxPoolRotations == 5

\* processLifecycle calls in a run of SpecRotate
MaxTickRotations == 7
\* channel hops in one behaviour
MaxHops == 2
\* virtual devices alive at once (active + dormant)
MaxDevices == 11
MaxSniffed == 22        \* management frames the probe filter sees
MaxDrops == 1           \* records lost at each full queue
MaxBodies == 42         \* distinct mesh payloads on the air
MaxRxTicks == 2         \* mesh frames arrive in the first MaxRxTicks ticks

\* ------------------------------------------------------------------------
\* Frame synthesizer (part_003:1152-1600)
\* ------------------------------------------------------------------------
\* An address is who it names and b0, its first octet.
BCAST == [t |-> "bcast", n |-> 0, b0 |-> 255]
StaAddr(vd) == [t |-> "sta", n |-> vd.id, b0 |-> vd.mac0]
BssidAddr(vd) == [t |-> "bssid_target", n |-> vd.id, b0 |-> 0]

\* random(256) | 0x02: the locally administered bit set, the group bit kept
LocalAnycast(x) == IF (x \div 2) % 2 = 1 THEN x ELSE x + 2

\* (random(256) & 0xFE) | 0x02
LocalUnicast(x) == LocalAnycast(x - (x % 2))

\* noiseMac of fillSilenceWithNoise; macByte is random(256)
RandAddr(macByte) ==
    [t |-> "random_private", n |-> 0, b0 |-> LocalUnicast(macByte)]
\* uint8_t mac[6] = {0x02, 0x11, 0x22, ...} of the fake beacon
FakeApAddr == [t |-> "fake_ap", n |-> 0, b0 |-> 2]

\* buf[22] = seq & 0xFF; buf[23] = (seq >> 8) & 0xF0;
SeqCtl(seq) ==
    << seq % 256, ((seq \div 256) % 256) - ((seq \div 256) % 16) >>

addTag(ies, id, data) ==
    Append(ies, [id |-> id, len |-> Len(data), data |-> data])

\* the SSID element: tag 0, the length byte, the SSID's octets (kept in
\* the frame's ssid field)
SsidTag(ies, ssid) ==
    Append(ies, [id |-> 0, len |-> Len(ssid), data |-> <<>>])

\* buf[ptr++] = 255; buf[ptr++] = sizeof(HE_CAPS_PAYLOAD) + 1; buf[ptr++] = 35;
HeTag(ies) ==
    Append(ies, [id |-> 255, len |-> Len(HE_CAPS_PAYLOAD) + 1,
                 data |-> <<35>> \o HE_CAPS_PAYLOAD])

RatesTag(ies, vd, is5) ==
    IF is5 THEN addTag(ies, 1, RATES_5G)
    ELSE IF vd.generation = GEN_LEGACY THEN addTag(ies, 1, RATES_LEGACY)
    ELSE addTag(ies, 1, RATES_MODERN_2G)

Frame(kind, fc, a1, a2, a3, seq, fixed, ssid, ies, dev, gen) ==
    [kind |-> kind, fc |-> fc, dur |-> <<0, 0>>,
     addr1 |-> a1, addr2 |-> a2, addr3 |-> a3,
     seq |-> seq, seqctl |-> SeqCtl(seq),
     fixed |-> fixed, ssid |-> ssid, ies |-> ies, payloadLen |-> 0,
     dev |-> dev, gen |-> gen]

\* addTag returns ptr + 2 + len: the octets a list of elements takes
RECURSIVE IeBytes(_)
IeBytes(ies) ==
    IF ies = <<>> THEN 0 ELSE 2 + Head(ies).len + IeBytes(Tail(ies))

\* the ptr a builder returns: the 24-octet header, the fixed fields, the
\* elements and the random payload
FrameLen(f) == 24 + Len(f.fixed) + IeBytes(f.ies) + f.payloadLen

NoFrame ==
    Frame("none", <<0, 0>>, BCAST, BCAST, BCAST, 0, <<>>, "", <<>>, 0, "none")

\* a synthesizer that gives every device the HE Caps element
WantsHeAlways(vd) == TRUE

\* if (vd.generation != GEN_LEGACY): the VHT Caps element
WantsVht(vd) == vd.generation # GEN_LEGACY

\* if (vd.generation == GEN_MODERN): the HE Caps extension element
WantsHe(vd) == vd.generation = GEN_MODERN

\* a builder that writes the Deauthentication subtype
buildDeauthPacket(vd) ==
    [ Frame("auth", <<192, 0>>, BssidAddr(vd), StaAddr(vd), BssidAddr(vd),
            vd.sequenceNumber, <<0, 0, 1, 0, 0, 0>>, "", <<>>,
            vd.id, vd.generation)
      EXCEPT !.dur = <<0, 1>> ]

buildAuthPacket(vd) ==
    [ Frame("auth", <<176, 0>>, BssidAddr(vd), StaAddr(vd), BssidAddr(vd),
            vd.sequenceNumber, <<0, 0, 1, 0, 0, 0>>, "", <<>>,
            vd.id, vd.generation)
      EXCEPT !.dur = <<0, 1>> ]

buildAssocRequestPacket(vd, ssid, is5) ==
    LET i1 == SsidTag(<<>>, ssid)
        i2 == RatesTag(i1, vd, is5)
        i3 == addTag(i2, 48, RSN_PAYLOAD)
        i4 == addTag(i3, 45, HT_CAPS_PAYLOAD)
        i5 == IF WantsVht(vd) THEN addTag(i4, 191, VHT_CAPS_PAYLOAD) ELSE i4
        i6 == IF WantsHe(vd) THEN HeTag(i5) ELSE i5
    IN  Frame("assoc", <<0, 0>>, BssidAddr(vd), StaAddr(vd), BssidAddr(vd),
              vd.sequenceNumber, <<49, 4, 10, 0>>, ssid, i6,
              vd.id, vd.generation)

\* a builder whose payload is twice as long
buildEncryptedDataPacketDouble(vd, payloadLen) ==
    [ Frame("data", <<136, 65>>, BssidAddr(vd), StaAddr(vd), BssidAddr(vd),
            vd.sequenceNumber, <<0, 0>>, "", <<>>, vd.id, vd.generation)
      EXCEPT !.payloadLen = 2 * payloadLen ]

\* payloadLen is random(64, 512); of the two octets before the payload,
\* random(0, 8) and 0x00, and of the payload's random octets only the count
\* is kept
buildEncryptedDataPacket(vd, payloadLen) ==
    [ Frame("data", <<136, 65>>, BssidAddr(vd), StaAddr(vd), BssidAddr(vd),
            vd.sequenceNumber, <<0, 0>>, "", <<>>, vd.id, vd.generation)
      EXCEPT !.payloadLen = payloadLen ]

\* The SSID a probe carries.  wildRoll is random(100), pick is
\* random(activeSSIDs.size()); the store is passed in.
ProbeSsid(vd, ssids, wildRoll, pick) ==
    LET useWildcard ==
            (vd.generation = GEN_LEGACY \/ vd.platform = PLATFORM_OTHER)
            /\ wildRoll < 40
    IN  IF useWildcard THEN ""
        ELSE IF vd.preferredSSIDIndex # -1
                /\ vd.preferredSSIDIndex < Len(ssids) /\ ssids # <<>>
             THEN ssids[vd.preferredSSIDIndex + 1]
        ELSE IF ssids # <<>> THEN ssids[pick + 1]
        ELSE "hiddenx"

\* a builder that writes the Apple vendor element before the WFA one and
\* the HE element before the Android Extended Capabilities
buildProbePacketShuffled(vd, channel, is5, ssid) ==
    LET isApple == vd.platform = PLATFORM_IOS
        i1 == SsidTag(<<>>, ssid)
        i2 == RatesTag(i1, vd, is5)
        i3 == addTag(i2, 3, <<channel>>)
        i4 == IF isApple THEN addTag(i3, 127, EXT_CAP_APPLE) ELSE i3
        i5 == addTag(i4, 45, HT_CAPS_PAYLOAD)
        i6 == IF WantsVht(vd) THEN addTag(i5, 191, VHT_CAPS_PAYLOAD) ELSE i5
        i7 == IF WantsHe(vd) THEN HeTag(i6) ELSE i6
        i8 == IF ~isApple /\ vd.generation # GEN_LEGACY
                THEN addTag(i7, 127, EXT_CAP_ANDROID) ELSE i7
        i9 == IF isApple THEN addTag(i8, 221, APPLE_VEND_PAYLOAD) ELSE i8
        i10 == addTag(i9, 221, WFA_VEND_PAYLOAD)
    IN  Frame("probe", <<64, 0>>, BCAST, StaAddr(vd), BCAST,
              vd.sequenceNumber, <<>>, ssid, i10, vd.id, vd.generation)

buildProbePacket(vd, channel, is5, ssid) ==
    LET isApple == vd.platform = PLATFORM_IOS
        i1 == SsidTag(<<>>, ssid)
        i2 == RatesTag(i1, vd, is5)
        i3 == addTag(i2, 3, <<channel>>)
        i4 == IF isApple THEN addTag(i3, 127, EXT_CAP_APPLE) ELSE i3
        i5 == addTag(i4, 45, HT_CAPS_PAYLOAD)
        i6 == IF WantsVht(vd) THEN addTag(i5, 191, VHT_CAPS_PAYLOAD) ELSE i5
        i7 == IF ~isApple /\ vd.generation # GEN_LEGACY
                THEN addTag(i6, 127, EXT_CAP_ANDROID) ELSE i6
        i8 == IF WantsHe(vd) THEN HeTag(i7) ELSE i7
        i9 == addTag(i8, 221, WFA_VEND_PAYLOAD)
        i10 == IF isApple THEN addTag(i9, 221, APPLE_VEND_PAYLOAD) ELSE i9
    IN  Frame("probe", <<64, 0>>, BCAST, StaAddr(vd), BCAST,
              vd.sequenceNumber, <<>>, ssid, i10, vd.id, vd.generation)

buildBeaconPacket(ssid, channel, is5, seqNum) ==
    LET i1 == SsidTag(<<>>, ssid)
        i2 == IF is5 THEN addTag(i1, 1, RATES_5G) ELSE addTag(i1, 1, RATES_LEGACY)
        i3 == addTag(i2, 3, <<channel>>)
        i4 == addTag(i3, 61, <<channel>> \o [k \in 1..21 |-> 0])
        i5 == IF is5 THEN addTag(i4, 192, <<0, 0, 0, 0, 0>>) ELSE i4
    IN  Frame("beacon", <<128, 0>>, BCAST, FakeApAddr, FakeApAddr,
              seqNum, <<0, 0, 0, 0, 0, 0, 0, 0, 100, 0, 49, 4>>, ssid, i5,
              0, "none")

\* for(int x=0; x<noiseLen; x++) noiseBuffer[ptr++] = random(97, 122): a
\* name of n letters
RECURSIVE NoiseName(_)
NoiseName(n) == IF n = 0 THEN "" ELSE "n" \o NoiseName(n - 1)

\* the noise probe of fillSilenceWithNoise; hidden is (random(100) < 40),
\* noiseLen is random(5, 12)
NoiseFrame(is5, hidden, macByte, noiseLen) ==
    LET ssid == IF hidden THEN NoiseName(noiseLen) ELSE ""
        i1 == SsidTag(<<>>, ssid)
        i2 == IF is5 THEN addTag(i1, 1, RATES_5G) ELSE addTag(i1, 1, RATES_LEGACY)
    IN  Frame("noise", <<64, 0>>, BCAST, RandAddr(macByte), BCAST, 0, <<>>,
              ssid, i2,
              0, "none")

\* ------------------------------------------------------------------------
\* State
\* ------------------------------------------------------------------------
VARIABLES
    pc,                 \* position of the main task in loop()
    now,                \* millis()
    currentMillis,      \* loop()'s currentMillis
    ticked,             \* the clock advanced during this iteration of loop()
    ssidQueue,          \* FreeRTOS queue of SniffedSSID
    activeSSIDs,
    lastSsidLearnTime,
    learnedInLoop,      \* history: this iteration's drain changed the store
    sniffedPacketCount,
    lowMemoryMode,
    heapSeen,           \* manageResources' freeHeap, as last read (-1: not yet)
    activeSwarm,
    dormantSwarm,
    rotateLeft,         \* processLifecycle calls left in this lifecycle tick
    rotCount,           \* processLifecycle calls so far (bounded)
    meshQueue,          \* FreeRTOS queue of MeshPacket
    meshCache,
    recentSenders,
    isMeshDetected,
    lastMeshPacketTime,
    lastMeshCheckTime,
    rxCb,               \* the installed promiscuous RX callback
    listenPolled,       \* the listen loop has polled meshQueue at least once
    lastMeshRx,         \* when the mesh filter last accepted a frame (-1: never)
    radioChannel,       \* the channel the radio is tuned to
    radioPower,         \* esp_wifi_set_max_tx_power
    lastTx,             \* the last frame handed to esp_wifi_80211_tx, as sent
    hardwareIsC5,
    currentChannel,
    is5GHzBand,
    idx2G,
    idx5G,
    nextHopIs5G,
    packetsLeft,        \* packetsThisHop - i
    hopCount,           \* channel hops so far (bounded by D.hops)
    swarmIdx,
    targetSSID,
    burstLeft,
    interactionCount,
    probeCount,         \* device probes sent so far (bounded by D.probes)
    ixLog,              \* the frames of the interaction in progress
    lastProbe,          \* per device: the seqs of its last two probes
    shownSniffed,       \* sniffedPacketCount as updateDisplayStats last read it
    rxDrops             \* records each RX callback could not queue (bounded)

clockVars == <<now, currentMillis, ticked>>
ssidVars ==
    <<ssidQueue, activeSSIDs, lastSsidLearnTime, learnedInLoop,
      sniffedPacketCount, shownSniffed, rxDrops>>
poolVars ==
    <<lowMemoryMode, heapSeen, activeSwarm, dormantSwarm, rotateLeft, rotCount>>
meshVars ==
    <<meshQueue, meshCache, recentSenders, isMeshDetected, lastMeshPacketTime,
      lastMeshCheckTime, rxCb, listenPolled, lastMeshRx>>
radioVars == <<radioChannel, radioPower, lastTx>>
bandVars ==
    <<hardwareIsC5, currentChannel, is5GHzBand, idx2G, idx5G, nextHopIs5G,
      packetsLeft, hopCount>>
slotVars ==
    <<swarmIdx, targetSSID, burstLeft, interactionCount, probeCount, ixLog, lastProbe>>
vars ==
    <<pc, clockVars, ssidVars, poolVars, meshVars, radioVars, bandVars, slotVars>>

\* ------------------------------------------------------------------------
\* Helpers
\* ------------------------------------------------------------------------
RemoveAt(s, i) == SubSeq(s, 1, i - 1) \o SubSeq(s, i + 1, Len(s))
DropFront(s, n) == SubSeq(s, n + 1, Len(s))
Range(s) == {s[i] : i \in 1..Len(s)}
Ids(pool) == {pool[i].id : i \in 1..Len(pool)}
\* the probe history of a device: the sequence numbers of its last two probes
\* (-1: none since it arrived), whether an interaction ran between them, and
\* whether one ran since the last
NoProbe == [prev |-> -1, cur |-> -1, ix |-> FALSE, ixAfter |-> FALSE]

\* unsigned long subtraction.  When b is ahead of a the difference wraps to
\* 2^32 - (b - a), which is above every interval it is compared with;
\* 2^31 - 1 stands for it.
USub(a, b) == IF a >= b THEN a - b ELSE 2147483647
Min(a, b) == IF a < b THEN a ELSE b
Max(a, b) == IF a > b THEN a ELSE b

\* random(n) is uniform on 0..n-1, random(a, b) on a..b-1
Random(n) == 0..(n - 1)
RandomRange(a, b) == a..(b - 1)

\* ------------------------------------------------------------------------
\* Identity generator (part_003:1269-1330).  r holds the values random()
\* returns: roll, ouiIdx, genRoll, pIdx, privRoll, macByte, seq, prefRoll,
\* prefIdx.  Of the address only mac[0] is kept, as mac0.
\* ------------------------------------------------------------------------
OUI_APPLE ==
    << <<252, 252, 72>>, <<188, 208, 116>>, <<172, 31, 15>>, <<240, 212, 21>>,
       <<240, 152, 157>>, <<52, 20, 95>>, <<220, 169, 4>>, <<40, 207, 233>>,
       <<172, 188, 50>>, <<228, 206, 143>>, <<188, 159, 239>>, <<72, 75, 170>>,
       <<136, 102, 90>>, <<28, 145, 72>>, <<96, 250, 205>> >>

OUI_SAMSUNG ==
    << <<36, 252, 238>>, <<140, 150, 212>>, <<92, 203, 153>>, <<52, 33, 9>>,
       <<132, 37, 219>>, <<0, 224, 100>>, <<128, 234, 150>>, <<56, 1, 149>>,
       <<176, 192, 144>>, <<252, 194, 222>> >>

OUI_LEGACY_IOT ==
    << <<0, 20, 56>>, <<0, 13, 147>>, <<0, 31, 50>>, <<0, 22, 53>>,
       <<0, 4, 189>>, <<0, 23, 224>>, <<0, 27, 122>> >>

OUI_MODERN_GEN ==
    << <<60, 92, 72>>, <<140, 245, 163>>, <<116, 198, 59>>, <<252, 166, 103>>,
       <<232, 106, 100>>, <<96, 85, 249>>, <<220, 140, 144>>, <<64, 159, 56>> >>

\* a generator that lets every generation take a private address
UsePrivateAny(gen, privRoll) == privRoll < 85

\* bool usePrivate: the roll stands for either random(100)
UsePrivate(gen, privRoll) ==
    \/ (gen = GEN_MODERN /\ privRoll < 85)
    \/ (gen = GEN_COMMON /\ privRoll < 50)

\* r holds the values random() returns; macByte is mac[0]'s random(256) and
\* macTail those of mac[1] and mac[2]
generateWeightedIdentity(id, r, nSsids) ==
    LET gen == IF r.roll < 40 THEN (IF r.genRoll < 80 THEN GEN_COMMON ELSE GEN_MODERN)
               ELSE IF r.roll < 75
                    THEN (IF r.genRoll < 70 THEN GEN_COMMON ELSE GEN_MODERN)
               ELSE IF r.roll < 82 THEN GEN_LEGACY
               ELSE GEN_MODERN
        plat == IF r.roll < 40 THEN PLATFORM_IOS
                ELSE IF r.roll < 75 THEN PLATFORM_ANDROID
                ELSE IF r.roll < 82 THEN PLATFORM_OTHER
                ELSE PLATFORM_ANDROID
        table == IF r.roll < 40 THEN OUI_APPLE
                 ELSE IF r.roll < 75 THEN OUI_SAMSUNG
                 ELSE IF r.roll < 82 THEN OUI_LEGACY_IOT
                 ELSE OUI_MODERN_GEN
        selectedOUI == table[r.ouiIdx + 1]
        usePrivate == UsePrivate(gen, r.privRoll)
        probeChance == IF gen = GEN_LEGACY THEN 90 ELSE 60
    IN  [id |-> id,
         mac0 |-> IF usePrivate THEN LocalUnicast(r.macByte)
                  ELSE selectedOUI[1],
         mac12 |-> IF usePrivate THEN r.macTail
                   ELSE <<selectedOUI[2], selectedOUI[3]>>,
         generation |-> gen,
         platform |-> plat,
         hasConnected |-> FALSE,
         txPower |-> POWER_LEVELS[r.pIdx + 1],
         sequenceNumber |-> r.seq,
         preferredSSIDIndex |->
             IF r.prefRoll < probeChance /\ nSsids > 0 THEN r.prefIdx ELSE -1]

\* Values of random() the model draws for an identity: the ends of every
\* range the generator compares against.
RollSamples == {0, 39, 40, 74, 75, 81, 82, 99}
GenRollSamples == {0, 69, 70, 79, 80, 99}
SeqSamples == {0, 4090}
PrefRollSamples == {0, 59, 60, 89, 90, 99}

IdentityDraws(nSsids) ==
    [roll : RollSamples, ouiIdx : {0}, genRoll : GenRollSamples,
     pIdx : Random(6), privRoll : {49}, macByte : {255}, macTail : {<<0, 20>>},
     seq : SeqSamples, prefRoll : PrefRollSamples,
     prefIdx : IF nSsids > 0 THEN {0, nSsids - 1} ELSE {0}]

\* a thinner sample, for specifications where identities are not the subject
IdentityDrawsFew(nSsids) ==
    [roll : {0, 75, 82}, ouiIdx : {0}, genRoll : {0}, pIdx : {0, 4},
     privRoll : {49}, macByte : {255}, macTail : {<<0, 20>>},
     seq : {4090}, prefRoll : {0}, prefIdx : {1}]

FreeIds(active, dormant) == (1..MaxDevices) \ (Ids(active) \cup Ids(dormant))
FreshId(active, dormant) ==
    CHOOSE i \in FreeIds(active, dormant) :
        \A j \in FreeIds(active, dormant) : i <= j

\* ------------------------------------------------------------------------
\* The clock.  Time passes while the main task runs; an iteration of loop()
\* lasts well under TickMs, so the clock advances at most once in it, and
\* not within the MESH_CHECK_DURATION_MS of a listen window.
\* ------------------------------------------------------------------------
Tick(horizon) ==
    /\ ~ticked
    /\ pc # "listen"
    /\ now + TickMs <= horizon
    /\ now' = now + TickMs
    /\ ticked' = TRUE
    /\ UNCHANGED <<pc, currentMillis, ssidVars, poolVars, meshVars, radioVars,
                   bandVars, slotVars>>

\* unsigned long currentMillis = millis();                (part_003:1848)
LoopTop ==
    /\ pc = "top"
    /\ currentMillis' = now
    /\ ticked' = FALSE
    /\ pc' = "drain"
    /\ learnedInLoop' = FALSE
    /\ UNCHANGED <<now, ssidQueue, activeSSIDs, lastSsidLearnTime,
                   sniffedPacketCount, shownSniffed, rxDrops,
                   poolVars, meshVars, radioVars, bandVars, slotVars>>

\* ------------------------------------------------------------------------
\* Learned SSIDs: one pass of the drain loop (part_003:1850-1883).
\* offer is the store after one dequeued SSID; cycleIdx is
\* random(NUM_SEED_SSIDS, activeSSIDs.size()), drawn at the ends of its
\* range.
\* ------------------------------------------------------------------------
\* the character of a byte, for the bytes the sniffed names are made of
Chr(b) ==
    IF b \in 48..57
    THEN <<"0", "1", "2", "3", "4", "5", "6", "7", "8", "9">>[b - 47]
    ELSE CASE b = 72 -> "H"
           [] b = 101 -> "e"
           [] b = 109 -> "m"
           [] b = 110 -> "n"
           [] b = 111 -> "o"
           [] b = 116 -> "t"
           [] OTHER -> "?"

\* the C string in a buffer: the bytes before the first NUL
RECURSIVE CString(_)
CString(bytes) ==
    IF bytes = <<>> \/ Head(bytes) = 0 THEN <<>>
    ELSE <<Head(bytes)>> \o CString(Tail(bytes))

RECURSIVE Chars(_)
Chars(bytes) ==
    IF bytes = <<>> THEN "" ELSE Chr(Head(bytes)) \o Chars(Tail(bytes))

\* String newSSID = String(s.ssid): s.ssid holds the len bytes of the SSID
\* element and a NUL after them
StringOf(ssid) == Chars(CString(ssid))

\* a store that does not look for the name among its entries
OfferAcceptsKnown(ssids, newSSID, lowMem) ==
    /\ ENABLE_SSID_REPLICATION
    /\ ~lowMem

OfferAccepts(ssids, newSSID, lowMem) ==
    /\ ENABLE_SSID_REPLICATION
    /\ ~lowMem
    /\ newSSID \notin Range(ssids)

\* a store that stops growing at MAX_SSIDS_TO_LEARN and cycles every
\* LEARN_INTERVAL_MS
OfferSsidAtMax(ssids, newSSID, lowMem, cur, lastLearn, cycleIdx) ==
    IF ~OfferAccepts(ssids, newSSID, lowMem)
    THEN [ssids |-> ssids, last |-> lastLearn]
    ELSE IF Len(ssids) < MAX_SSIDS_TO_LEARN
    THEN [ssids |-> Append(ssids, newSSID), last |-> cur]
    ELSE IF USub(cur, lastLearn) >= LEARN_INTERVAL_MS /\ Len(ssids) > NUM_SEED_SSIDS
    THEN [ssids |-> [ssids EXCEPT ![cycleIdx + 1] = newSSID], last |-> cur]
    ELSE [ssids |-> ssids, last |-> lastLearn]

OfferSsid(ssids, newSSID, lowMem, cur, lastLearn, cycleIdx) ==
    LET requiredInterval ==
            IF Len(ssids) >= MAX_SSIDS_TO_LEARN
            THEN CYCLE_INTERVAL_MS ELSE LEARN_INTERVAL_MS
    IN  IF ~OfferAccepts(ssids, newSSID, lowMem)
        THEN [ssids |-> ssids, last |-> lastLearn]
        ELSE IF Len(ssids) < MAX_SSIDS_TO_LEARN + CYCLE_CAP_BUFFER
        THEN [ssids |-> Append(ssids, newSSID), last |-> cur]
        ELSE IF USub(cur, lastLearn) >= requiredInterval /\ Len(ssids) > NUM_SEED_SSIDS
        THEN [ssids |-> [ssids EXCEPT ![cycleIdx + 1] = newSSID], last |-> cur]
        ELSE [ssids |-> ssids, last |-> lastLearn]

DrainSsid ==
    /\ pc = "drain"
    /\ IF ssidQueue = <<>>
       THEN /\ pc' = "govern"
            /\ UNCHANGED ssidVars
       ELSE /\ \E cycleIdx \in IF Len(activeSSIDs) > NUM_SEED_SSIDS
                               THEN {NUM_SEED_SSIDS, Len(activeSSIDs) - 1}
                               ELSE {NUM_SEED_SSIDS} :
                 LET r == OfferSsid(activeSSIDs, StringOf(Head(ssidQueue)),
                                    lowMemoryMode,
                                    currentMillis, lastSsidLearnTime, cycleIdx)
                 IN  /\ activeSSIDs' = r.ssids
                     /\ lastSsidLearnTime' = r.last
                     /\ learnedInLoop' = (learnedInLoop \/ r.ssids # activeSSIDs)
            /\ ssidQueue' = Tail(ssidQueue)
            /\ pc' = pc
            /\ UNCHANGED <<sniffedPacketCount, shownSniffed, rxDrops>>
    /\ UNCHANGED <<clockVars, poolVars, meshVars, radioVars, bandVars, slotVars>>

\* ------------------------------------------------------------------------
\* Resource governor (part_003:1160-1187); freeHeap is ESP.getFreeHeap()
\* ------------------------------------------------------------------------
HeapSamples == {14000, 20000, 30000}

\* a governor that drops a tenth of the active pool
ActiveDropTenth(n) == (n * 10) \div 100

DormantDrop(n) == (n * 30) \div 100      \* int dropCount = size * 0.30
ActiveDrop(n) == (n * 15) \div 100       \* int dropCount = size * 0.15

manageResources(freeHeap, active, dormant) ==
    IF freeHeap < 25000
    THEN [low |-> TRUE,
          dormant |-> DropFront(dormant, DormantDrop(Len(dormant))),
          active |-> IF freeHeap < 15000 /\ active # <<>>
                     THEN DropFront(active, ActiveDrop(Len(active)))
                     ELSE active]
    ELSE [low |-> FALSE, dormant |-> dormant, active |-> active]

ManageResources(heaps) ==
    /\ pc = "govern"
    /\ \E freeHeap \in heaps :
         LET r == manageResources(freeHeap, activeSwarm, dormantSwarm)
         IN  /\ heapSeen' = freeHeap
             /\ lowMemoryMode' = r.low
             /\ activeSwarm' = r.active
             /\ dormantSwarm' = r.dormant
    /\ pc' = "meshprune"
    /\ UNCHANGED <<rotateLeft, rotCount, clockVars, ssidVars, meshVars, radioVars,
                   bandVars, slotVars>>

\* ------------------------------------------------------------------------
\* manageMeshResources(currentMillis) (part_003:1189-1209)
\* ------------------------------------------------------------------------
PruneSenders(senders, cur) ==
    SelectSeq(senders, LAMBDA s : ~(USub(cur, s.lastSeen) > SENDER_TRACK_WINDOW_MS))

PruneMessages(cache, cur) ==
    SelectSeq(cache, LAMBDA m : ~(USub(cur, m.lastSeen) > MESH_DECAY_TIMEOUT_MS))

ManageMeshResources ==
    /\ pc = "meshprune"
    /\ recentSenders' = PruneSenders(recentSenders, currentMillis)
    /\ meshCache' = PruneMessages(meshCache, currentMillis)
    /\ pc' = "lifecycle"
    /\ UNCHANGED <<meshQueue, isMeshDetected, lastMeshPacketTime, lastMeshCheckTime,
                   rxCb, listenPolled, lastMeshRx,
                   clockVars, ssidVars, poolVars, radioVars, bandVars, slotVars>>

\* ------------------------------------------------------------------------
\* Lifecycle (part_003:1348-1382, 1888-1894).  The values random() returns:
\* idx, swapRoll = random(100), dIdx, k = random(50, 500),
\* powRoll = random(100), powStep = random(3); fresh is the identity
\* generateWeightedIdentity would produce.
\* ------------------------------------------------------------------------
LOW_MEMORY_ACTIVE_LIMIT == 800

\* a lifecycle that admits the arriving device at whatever power it has
ClampNot(p) == p

Clamp(p) ==
    IF p < MIN_TX_POWER THEN MIN_TX_POWER
    ELSE IF p > MAX_TX_POWER THEN MAX_TX_POWER ELSE p

Rearrive(vd, k, powRoll, powStep) ==
    [vd EXCEPT !.sequenceNumber = (vd.sequenceNumber + k) % 4096,
               !.txPower = IF powRoll < 30
                           THEN vd.txPower + (powStep - 1) * 2 ELSE vd.txPower,
               !.hasConnected = FALSE]

\* a lifecycle that parks the leaving device without erasing it
RetireKeep(active, dormant, lowMem, idx) ==
    IF active = <<>>
    THEN [active |-> active, dormant |-> dormant]
    ELSE [active |-> active,
          dormant |-> IF Len(dormant) < TARGET_DORMANT_POOL /\ ~lowMem
                      THEN Append(dormant, active[idx + 1]) ELSE dormant]

\* a lifecycle that parks the leaving device whatever the memory
RetireParksAlways(active, dormant, lowMem, idx) ==
    IF active = <<>>
    THEN [active |-> active, dormant |-> dormant]
    ELSE [active |-> RemoveAt(active, idx + 1),
          dormant |-> IF Len(dormant) < TARGET_DORMANT_POOL
                      THEN Append(dormant, active[idx + 1]) ELSE dormant]

\* a lifecycle that parks the leaving device however full the dormant pool
RetireNoCap(active, dormant, lowMem, idx) ==
    IF active = <<>>
    THEN [active |-> active, dormant |-> dormant]
    ELSE [active |-> RemoveAt(active, idx + 1),
          dormant |-> IF ~lowMem
                      THEN Append(dormant, active[idx + 1]) ELSE dormant]

\* 1. Remove an old agent
Retire(active, dormant, lowMem, idx) ==
    IF active = <<>>
    THEN [active |-> active, dormant |-> dormant]
    ELSE [active |-> RemoveAt(active, idx + 1),
          dormant |-> IF Len(dormant) < TARGET_DORMANT_POOL /\ ~lowMem
                      THEN Append(dormant, active[idx + 1]) ELSE dormant]

FromDormant(dormant, swapRoll) ==
    ENABLE_LIFECYCLE_SIM /\ dormant # <<>> /\ swapRoll < 50

\* a lifecycle that lets nobody arrive
AdmitNobody(active, dormant, lowMem, swapRoll, dIdx, k, powRoll, powStep, fresh) ==
    [active |-> active, dormant |-> dormant, arrived |-> FALSE]

\* 2. Add a new agent (swap from dormant or create new)
Admit(active, dormant, lowMem, swapRoll, dIdx, k, powRoll, powStep, fresh) ==
    LET arriving == IF FromDormant(dormant, swapRoll)
                    THEN Rearrive(dormant[dIdx + 1], k, powRoll, powStep)
                    ELSE fresh
    IN  IF lowMem /\ Len(active) > LOW_MEMORY_ACTIVE_LIMIT
        THEN [active |-> active, dormant |-> dormant, arrived |-> FALSE]
        ELSE [active |-> Append(active,
                                [arriving EXCEPT !.txPower = Clamp(arriving.txPower)]),
              dormant |-> IF FromDormant(dormant, swapRoll)
                          THEN RemoveAt(dormant, dIdx + 1) ELSE dormant,
              arrived |-> TRUE]

processLifecycle(active, dormant, lowMem, idx, swapRoll, dIdx, k, powRoll, powStep, fresh) ==
    LET mid == Retire(active, dormant, lowMem, idx)
    IN  Admit(mid.active, mid.dormant, lowMem, swapRoll, dIdx, k, powRoll,
              powStep, fresh)

\* if (currentMillis - lastLifecycleRun > nextLifecycleInterval): the interval
\* (1980..3959 ms) is below the clock's resolution, so whether it has elapsed
\* is an input, due.
LifecycleTick(dues, maxRot) ==
    /\ pc = "lifecycle"
    /\ \E due \in dues :
         IF due
         THEN /\ \E rotateCount \in RandomRange(3, 8) :
                   /\ rotCount + rotateCount <= maxRot
                   /\ rotateLeft' = rotateCount
              /\ pc' = "rotate"
         ELSE /\ rotateLeft' = 0
              /\ pc' = "decay"
    /\ UNCHANGED <<lowMemoryMode, heapSeen, activeSwarm, dormantSwarm, rotCount,
                   clockVars, ssidVars, meshVars, radioVars, bandVars, slotVars>>

\* one processLifecycle() call of the for loop, or the loop's end.  R holds
\* the sets random() is drawn from, draws those of the identity generator.
ProcessLifecycle(draws, R) ==
    /\ pc = "rotate"
    /\ IF rotateLeft = 0
       THEN /\ pc' = "decay"
            /\ UNCHANGED <<poolVars, lastProbe>>
       ELSE /\ \E idx \in R.idxs \cap Random(Max(1, Len(activeSwarm))),
                  swapRoll \in R.swapRolls,
                  k \in R.steps, powRoll \in R.powRolls, powStep \in R.powSteps,
                  r \in draws :
                 LET mid == Retire(activeSwarm, dormantSwarm, lowMemoryMode, idx)
                     free == FreeIds(mid.active, mid.dormant)
                 IN  \E dIdx \in R.idxs \cap Random(Max(1, Len(mid.dormant))) :
                       LET fresh == generateWeightedIdentity(
                                        FreshId(mid.active, mid.dormant), r,
                                        Len(activeSSIDs))
                           res == processLifecycle(activeSwarm, dormantSwarm,
                                      lowMemoryMode, idx, swapRoll, dIdx, k,
                                      powRoll, powStep, fresh)
                       IN  \* a new identity needs a name that is not in use
                           /\ \/ FromDormant(mid.dormant, swapRoll)
                              \/ free # {}
                              \/ (lowMemoryMode
                                  /\ Len(mid.active) > LOW_MEMORY_ACTIVE_LIMIT)
                           /\ activeSwarm' = res.active
                           /\ dormantSwarm' = res.dormant
                           /\ lastProbe' =
                                IF res.arrived
                                THEN [lastProbe EXCEPT
                                        ![res.active[Len(res.active)].id] = NoProbe]
                                ELSE lastProbe
            /\ rotateLeft' = rotateLeft - 1
            /\ rotCount' = rotCount + 1
            /\ UNCHANGED <<lowMemoryMode, heapSeen>>
            /\ pc' = pc
    /\ UNCHANGED <<clockVars, ssidVars, meshVars, radioVars, bandVars,
                   swarmIdx, targetSSID, burstLeft, interactionCount, probeCount, ixLog>>

\* ------------------------------------------------------------------------
\* Mesh decay, the mesh check and its listen window
\* (part_003:1896-1925, 1729-1807)
\* ------------------------------------------------------------------------
MeshDecay ==
    /\ pc = "decay"
    /\ IF ENABLE_MESH_RELAY /\ isMeshDetected
          /\ USub(currentMillis, lastMeshPacketTime) > MESH_DECAY_TIMEOUT_MS
       THEN /\ isMeshDetected' = FALSE
            /\ meshCache' = <<>>
       ELSE UNCHANGED <<isMeshDetected, meshCache>>
    /\ pc' = "meshcheck"
    /\ UNCHANGED <<meshQueue, recentSenders, lastMeshPacketTime, lastMeshCheckTime,
                   rxCb, listenPolled, lastMeshRx,
                   clockVars, ssidVars, poolVars, radioVars, bandVars, slotVars>>

RequiredInterval(detected) ==
    IF detected THEN MESH_ACTIVE_INTERVAL_MS ELSE MESH_STANDBY_INTERVAL_MS

\* the check is entered: steps 1 and 2 of checkAndListenForMesh
MeshCheck ==
    /\ pc = "meshcheck"
    /\ IF ENABLE_MESH_RELAY
          /\ USub(currentMillis, lastMeshCheckTime) > RequiredInterval(isMeshDetected)
       THEN /\ rxCb' = "mesh"
            /\ radioChannel' = MESH_CHANNEL
            /\ listenPolled' = FALSE
            /\ pc' = "listen"
       ELSE /\ UNCHANGED <<rxCb, radioChannel, listenPolled>>
            /\ pc' = "hop"
    /\ UNCHANGED <<meshQueue, meshCache, recentSenders, isMeshDetected,
                   lastMeshPacketTime, lastMeshCheckTime, lastMeshRx,
                   radioPower, lastTx,
                   clockVars, ssidVars, poolVars, bandVars, slotVars>>

LOCAL_MAC == "local"

\* the sender list after a frame of senderMac is seen at time t
TrackSender(senders, senderMac, t) ==
    IF \E i \in 1..Len(senders) : senders[i].mac = senderMac
    THEN LET first == CHOOSE i \in 1..Len(senders) :
                          /\ senders[i].mac = senderMac
                          /\ \A j \in 1..(i - 1) : senders[j].mac # senderMac
         IN  [senders EXCEPT ![first].lastSeen = t]
    ELSE Append(senders, [mac |-> senderMac, lastSeen |-> t])

\* a cache that takes every message as a new one
CacheMessageAll(cache, mp, t) ==
    Append(IF Len(cache) >= MAX_MESH_QUEUE_SIZE THEN Tail(cache) ELSE cache,
           [payload |-> mp, lastSeen |-> t])

\* a cache that keeps every message it has
CacheMessageKeepAll(cache, mp, t) ==
    IF \E i \in 1..Len(cache) : cache[i].payload = mp
    THEN cache
    ELSE Append(cache, [payload |-> mp, lastSeen |-> t])

\* the cache after the packet mp is dequeued at time t
CacheMessage(cache, mp, t) ==
    IF \E i \in 1..Len(cache) : cache[i].payload = mp
    THEN LET first == CHOOSE i \in 1..Len(cache) :
                          /\ cache[i].payload = mp
                          /\ \A j \in 1..(i - 1) : cache[j].payload # mp
         IN  [cache EXCEPT ![first].lastSeen = t]
    ELSE Append(IF Len(cache) >= MAX_MESH_QUEUE_SIZE THEN Tail(cache) ELSE cache,
                [payload |-> mp, lastSeen |-> t])

\* a listener that takes no frame for its own
IsSelfNever(mp) == FALSE

\* memcmp(senderMac, local_mac_addr, 6) == 0, senderMac being payload[10..15]
IsSelf(mp) == mp.sender = LOCAL_MAC

\* a listen loop that caches what it receives without marking the mesh as
\* detected
ListenPollNoFlag ==
    /\ pc = "listen"
    /\ IF meshQueue = <<>>
       THEN /\ listenPolled' = TRUE
            /\ UNCHANGED <<meshQueue, meshCache, recentSenders, isMeshDetected,
                           lastMeshPacketTime>>
       ELSE LET mp == Head(meshQueue)
            IN  /\ meshQueue' = Tail(meshQueue)
                /\ listenPolled' = listenPolled
                /\ IF mp.len >= 16 /\ IsSelf(mp)
                   THEN UNCHANGED <<meshCache, recentSenders, isMeshDetected,
                                    lastMeshPacketTime>>
                   ELSE /\ recentSenders' =
                             IF mp.len >= 16
                             THEN TrackSender(recentSenders, mp.sender, now)
                             ELSE recentSenders
                        /\ meshCache' = CacheMessage(meshCache, mp, now)
                        /\ isMeshDetected' = isMeshDetected
                        /\ lastMeshPacketTime' = now
    /\ UNCHANGED <<pc, lastMeshCheckTime, rxCb, lastMeshRx,
                   clockVars, ssidVars, poolVars, radioVars, bandVars, slotVars>>

\* one pass of the while loop of the listen window: xQueueReceive and what
\* follows it.  A pass that finds the queue empty is remembered: the window
\* lasts long enough for the loop to come round to an empty queue.
ListenPoll ==
    /\ pc = "listen"
    /\ IF meshQueue = <<>>
       THEN /\ listenPolled' = TRUE
            /\ UNCHANGED <<meshQueue, meshCache, recentSenders, isMeshDetected,
                           lastMeshPacketTime>>
       ELSE LET mp == Head(meshQueue)
            IN  /\ meshQueue' = Tail(meshQueue)
                /\ listenPolled' = listenPolled
                /\ IF mp.len >= 16 /\ IsSelf(mp)
                   THEN UNCHANGED <<meshCache, recentSenders, isMeshDetected,
                                    lastMeshPacketTime>>
                   ELSE /\ recentSenders' =
                             IF mp.len >= 16
                             THEN TrackSender(recentSenders, mp.sender, now)
                             ELSE recentSenders
                        /\ meshCache' = CacheMessage(meshCache, mp, now)
                        /\ isMeshDetected' = TRUE
                        /\ lastMeshPacketTime' = now
    /\ UNCHANGED <<pc, lastMeshCheckTime, rxCb, lastMeshRx,
                   clockVars, ssidVars, poolVars, radioVars, bandVars, slotVars>>

\* the window closes: step 4, and lastMeshCheckTime = currentMillis in loop()
ListenEnd ==
    /\ pc = "listen"
    /\ listenPolled
    /\ rxCb' = "sniffer"
    /\ lastMeshCheckTime' = currentMillis
    /\ pc' = "hop"
    /\ UNCHANGED <<meshQueue, meshCache, recentSenders, isMeshDetected,
                   lastMeshPacketTime, listenPolled, lastMeshRx,
                   clockVars, ssidVars, poolVars, radioVars, bandVars, slotVars>>

\* ------------------------------------------------------------------------
\* The RX callbacks (part_003:1212-1266).  They run in the driver's
\* context, between any two steps of the main task.  A received frame is
\* [type, fc, tag, len, ssid] for the probe filter and
\* [type, fc, len, cat, oui, sender, body] for the mesh filter.
\* ------------------------------------------------------------------------
WIFI_PKT_MGMT == "mgmt"
ESPRESSIF_OUI == <<24, 254, 52>>

\* a queue that makes room for the new record by dropping its oldest one
xQueueOverwriteOldest(q, capacity, item) ==
    IF Len(q) < capacity THEN Append(q, item) ELSE Append(Tail(q), item)

\* xQueueSendFromISR: the record is copied in if there is room
xQueueSendFromISR(q, capacity, item) ==
    IF Len(q) < capacity THEN Append(q, item) ELSE q

SnifferPasses(f) ==
    /\ f.fc = 64
    /\ f.tag = 0
    /\ f.len > 1 /\ f.len < 32

\* frames is the set of frames the air may deliver now; maxCount and
\* maxDrops bound the frames counted and the records lost in one behaviour
snifferCallback(frames, maxCount, maxDrops) ==
    /\ rxCb = "sniffer"
    /\ \E f \in frames :
         IF ~ENABLE_PASSIVE_SCAN \/ f.type # WIFI_PKT_MGMT
         THEN UNCHANGED <<ssidQueue, sniffedPacketCount, rxDrops>>
         ELSE /\ sniffedPacketCount < maxCount
              /\ sniffedPacketCount' = sniffedPacketCount + 1
              /\ IF SnifferPasses(f)
                 THEN /\ ssidQueue' = xQueueSendFromISR(ssidQueue, SSID_QUEUE_LENGTH,
                                                        f.ssid)
                      /\ IF Len(ssidQueue) < SSID_QUEUE_LENGTH
                         THEN rxDrops' = rxDrops
                         ELSE /\ rxDrops.ssid < maxDrops
                              /\ rxDrops' = [rxDrops EXCEPT !.ssid = @ + 1]
                 ELSE UNCHANGED <<ssidQueue, rxDrops>>
    /\ UNCHANGED <<pc, clockVars, activeSSIDs, lastSsidLearnTime, learnedInLoop,
                   shownSniffed,
                   poolVars, meshVars, radioVars, bandVars, slotVars>>

\* a filter that does not look at the category code
MeshPassesAnyCategory(f) ==
    /\ f.type = WIFI_PKT_MGMT
    /\ f.fc = 208
    /\ ~(f.len < 40 \/ f.len > 1024)
    /\ f.oui = ESPRESSIF_OUI

MeshPasses(f) ==
    /\ f.type = WIFI_PKT_MGMT
    /\ f.fc = 208
    /\ ~(f.len < 40 \/ f.len > 1024)
    /\ f.cat = 127
    /\ f.oui = ESPRESSIF_OUI

\* memcpy(mp.payload, frame, len); mp.len = len
MeshPacketOf(f) ==
    [fc |-> f.fc, cat |-> f.cat, oui |-> f.oui, sender |-> f.sender,
     body |-> f.body, len |-> f.len]

meshSnifferCallback(frames, maxDrops) ==
    /\ rxCb = "mesh"
    /\ \E f \in frames :
         IF ENABLE_MESH_RELAY /\ MeshPasses(f)
         THEN /\ meshQueue' = xQueueSendFromISR(meshQueue, MESH_QUEUE_LENGTH,
                                                MeshPacketOf(f))
              /\ lastMeshRx' = now
              /\ IF Len(meshQueue) < MESH_QUEUE_LENGTH
                 THEN rxDrops' = rxDrops
                 ELSE /\ rxDrops.mesh < maxDrops
                      /\ rxDrops' = [rxDrops EXCEPT !.mesh = @ + 1]
         ELSE UNCHANGED <<meshQueue, lastMeshRx, rxDrops>>
    /\ UNCHANGED <<pc, meshCache, recentSenders, isMeshDetected, lastMeshPacketTime,
                   lastMeshCheckTime, rxCb, listenPolled,
                   clockVars, ssidQueue, activeSSIDs, lastSsidLearnTime,
                   learnedInLoop, sniffedPacketCount, shownSniffed,
                   poolVars, radioVars, bandVars, slotVars>>

\* ------------------------------------------------------------------------
\* Channel hop and its packet slots (part_003:1929-2055).  D is a record of
\* the sets the values of random() are drawn from.
\* ------------------------------------------------------------------------
\* esp_wifi_80211_tx: the frame as the radio sends it
\* The counters the code steps after the call that sends a frame: after a
\* relay meshRelayCount and totalPacketCount, after a noise probe
\* totalPacketCount and junkPacketCount, after a probe (if pktLen > 0), an
\* interaction frame or a beacon totalPacketCount and the band's counter.
Counted(frame, is5) ==
    LET band == IF is5 THEN "packets5G" ELSE "packets2G"
    IN  CASE frame.kind = "none" -> {}
          [] frame.kind = "relay" -> {"meshRelayCount", "totalPacketCount"}
          [] frame.kind = "noise" -> {"totalPacketCount", "junkPacketCount"}
          [] frame.kind = "probe" ->
                IF FrameLen(frame) > 0 THEN {"totalPacketCount", band} ELSE {}
          [] OTHER -> {"totalPacketCount", band}

\* ok is whether esp_wifi_80211_tx returned ESP_OK; no caller reads it
Sent(frame, power, ok) ==
    [frame |-> frame, power |-> power, channel |-> radioChannel,
     is5 |-> is5GHzBand, ok |-> ok, counted |-> Counted(frame, is5GHzBand)]

RelayFrame(msg) ==
    Frame("relay", <<208, 0>>, BCAST, [t |-> "peer", n |-> 0, b0 |-> 2], BCAST, 0,
          <<msg.payload>>, "", <<>>, 0, "none")

\* an index that stays on the last channel of its list
NextIdxStuck(i, n) == IF i + 1 >= n THEN i ELSE i + 1

NextIdx(i, n) == IF i + 1 >= n THEN 0 ELSE i + 1

\* a hop that leaves out esp_wifi_set_channel
HopTickNoTune(D) ==
    /\ pc = "hop"
    /\ \E due \in D.hopDue :
         IF due
         THEN /\ hopCount < D.hops
              /\ hopCount' = hopCount + 1
              /\ IF hardwareIsC5 /\ nextHopIs5G
                 THEN /\ is5GHzBand' = TRUE
                      /\ currentChannel' = CHANNELS_5G[idx5G + 1]
                      /\ idx5G' = NextIdx(idx5G, NUM_CHANNELS_5G)
                      /\ nextHopIs5G' = FALSE
                      /\ idx2G' = idx2G
                 ELSE /\ is5GHzBand' = FALSE
                      /\ currentChannel' = CHANNELS_2G[idx2G + 1]
                      /\ idx2G' = NextIdx(idx2G, NUM_CHANNELS_2G)
                      /\ nextHopIs5G' = (IF hardwareIsC5 THEN TRUE ELSE nextHopIs5G)
                      /\ idx5G' = idx5G
              /\ radioChannel' = radioChannel
              /\ \E packetsThisHop \in D.packets : packetsLeft' = packetsThisHop
              /\ pc' = "slot"
         ELSE /\ pc' = "ui"
              /\ UNCHANGED <<hopCount, is5GHzBand, currentChannel, idx5G, idx2G,
                             nextHopIs5G, radioChannel, packetsLeft>>
    /\ UNCHANGED <<hardwareIsC5, radioPower, lastTx,
                   clockVars, ssidVars, poolVars, meshVars, slotVars>>

\* if (currentMillis - lastChannelHop > nextChannelHopInterval): the interval
\* (120..299 ms) is below the clock's resolution, so whether it has elapsed
\* is an input, due.
HopTick(D) ==
    /\ pc = "hop"
    /\ \E due \in D.hopDue :
         IF due
         THEN /\ hopCount < D.hops
              /\ hopCount' = hopCount + 1
              /\ IF hardwareIsC5 /\ nextHopIs5G
                 THEN /\ is5GHzBand' = TRUE
                      /\ currentChannel' = CHANNELS_5G[idx5G + 1]
                      /\ idx5G' = NextIdx(idx5G, NUM_CHANNELS_5G)
                      /\ nextHopIs5G' = FALSE
                      /\ idx2G' = idx2G
                 ELSE /\ is5GHzBand' = FALSE
                      /\ currentChannel' = CHANNELS_2G[idx2G + 1]
                      /\ idx2G' = NextIdx(idx2G, NUM_CHANNELS_2G)
                      /\ nextHopIs5G' = (IF hardwareIsC5 THEN TRUE ELSE nextHopIs5G)
                      /\ idx5G' = idx5G
              /\ radioChannel' = currentChannel'
              /\ \E packetsThisHop \in D.packets : packetsLeft' = packetsThisHop
              /\ pc' = "slot"
         ELSE /\ pc' = "ui"
              /\ UNCHANGED <<hopCount, is5GHzBand, currentChannel, idx5G, idx2G,
                             nextHopIs5G, radioChannel, packetsLeft>>
    /\ UNCHANGED <<hardwareIsC5, radioPower, lastTx,
                   clockVars, ssidVars, poolVars, meshVars, slotVars>>

\* a relay that does not look at the band or the channel
RelayDueAnyChannel(cache, is5, channel, roll) ==
    ENABLE_MESH_RELAY /\ cache # <<>> /\ roll < MESH_RELAY_CHANCE

\* if (ENABLE_MESH_RELAY && !meshCache.empty() && !is5GHzBand &&
\*     currentChannel == MESH_CHANNEL && random(100) < MESH_RELAY_CHANCE)
RelayDue(cache, is5, channel, roll) ==
    /\ ENABLE_MESH_RELAY
    /\ cache # <<>>
    /\ ~is5
    /\ channel = MESH_CHANNEL
    /\ roll < MESH_RELAY_CHANCE

\* the head of the for loop and the mesh relay of a slot
HopSlot(D) ==
    /\ pc = "slot"
    /\ IF packetsLeft = 0
       THEN /\ pc' = "ui"
            /\ UNCHANGED <<radioPower, lastTx>>
       ELSE /\ \E roll \in D.relayRolls, msgIdx \in Random(Max(1, Len(meshCache))),
                  ok \in D.txResults :
                 IF RelayDue(meshCache, is5GHzBand, currentChannel, roll)
                 THEN /\ radioPower' = MAX_TX_POWER
                      /\ lastTx' = Sent(RelayFrame(meshCache[msgIdx + 1]),
                                        MAX_TX_POWER, ok)
                 ELSE UNCHANGED <<radioPower, lastTx>>
            /\ pc' = "pick"
    /\ UNCHANGED <<radioChannel, clockVars, ssidVars, poolVars, meshVars,
                   bandVars, slotVars>>

Probed(h, seq) ==
    [prev |-> h.cur, cur |-> seq, ix |-> h.ixAfter, ixAfter |-> FALSE]

InteractionDue(vd, ssids, ixRoll) ==
    /\ ENABLE_INTERACTION_SIM
    /\ ixRoll < 2
    /\ vd.preferredSSIDIndex # -1
    /\ vd.preferredSSIDIndex < Len(ssids)

\* a scheduler without the band check
SkipsNever(vd, is5) == FALSE

SkipsSlot(vd, is5) == is5 /\ vd.generation = GEN_LEGACY

\* a sequence counter that is not reduced mod 4096
BumpNoWrap(vd, step) ==
    [vd EXCEPT !.sequenceNumber = vd.sequenceNumber + step]

Bump(vd, step) ==
    [vd EXCEPT !.sequenceNumber = (vd.sequenceNumber + step) % 4096]

\* a gap that can reach 8
SeqStepWide(gapRoll, gapStep) ==
    IF ENABLE_SEQUENCE_GAPS /\ gapRoll < 20 THEN gapStep + 1 ELSE 1

\* int step = (ENABLE_SEQUENCE_GAPS && random(100) < 20) ? random(2, 8) : 1;
SeqStep(gapRoll, gapStep) ==
    IF ENABLE_SEQUENCE_GAPS /\ gapRoll < 20 THEN gapStep ELSE 1

\* a device is picked, the radio is set to its power, and the slot is
\* skipped, or an interaction begins, or a probe is sent
PickDevice(D) ==
    /\ pc = "pick"
    /\ IF activeSwarm = <<>>
       THEN /\ pc' = "beacon"
            /\ UNCHANGED <<swarmIdx, radioPower, lastTx, activeSwarm, packetsLeft,
                           targetSSID, ixLog, probeCount, lastProbe>>
       ELSE \E idx \in Random(Len(activeSwarm)), ixRoll \in D.ixRolls,
               wildRoll \in D.wildRolls, pick \in D.picks,
               gapRoll \in D.gapRolls, gapStep \in D.gapSteps,
               ok \in D.txResults :
              LET vd == activeSwarm[idx + 1]
                  ssid == ProbeSsid(vd, activeSSIDs, wildRoll,
                                    Min(pick, Max(0, Len(activeSSIDs) - 1)))
                  step == SeqStep(gapRoll, gapStep)
              IN  /\ swarmIdx' = idx
                  /\ radioPower' = vd.txPower
                  /\ IF SkipsSlot(vd, is5GHzBand)
                     THEN /\ packetsLeft' = packetsLeft - 1
                          /\ pc' = "slot"
                          /\ UNCHANGED <<lastTx, activeSwarm, targetSSID, ixLog,
                                         probeCount, lastProbe>>
                     ELSE IF InteractionDue(vd, activeSSIDs, ixRoll)
                     THEN /\ interactionCount < MaxInteractions
                          /\ targetSSID' = activeSSIDs[vd.preferredSSIDIndex + 1]
                          /\ activeSwarm' =
                               [activeSwarm EXCEPT ![idx + 1].hasConnected = TRUE]
                          /\ ixLog' = <<>>
                          /\ lastProbe' = [lastProbe EXCEPT ![vd.id].ixAfter = TRUE]
                          /\ pc' = "auth"
                          /\ UNCHANGED <<lastTx, packetsLeft, probeCount>>
                     ELSE /\ probeCount < D.probes
                          /\ lastTx' = Sent(buildProbePacket(vd, currentChannel,
                                                is5GHzBand, ssid), vd.txPower, ok)
                          /\ activeSwarm' =
                               [activeSwarm EXCEPT ![idx + 1] = Bump(vd, step)]
                          /\ lastProbe' =
                               [lastProbe EXCEPT
                                  ![vd.id] = Probed(lastProbe[vd.id], vd.sequenceNumber)]
                          /\ probeCount' = probeCount + 1
                          /\ pc' = "beacon"
                          /\ UNCHANGED <<targetSSID, ixLog, packetsLeft>>
    /\ UNCHANGED <<radioChannel, clockVars, ssidVars, meshVars,
                   lowMemoryMode, heapSeen, dormantSwarm, rotateLeft, rotCount,
                   hardwareIsC5, currentChannel, is5GHzBand, idx2G, idx5G,
                   nextHopIs5G, hopCount, burstLeft, interactionCount>>

\* what the interaction log keeps of a frame: the frame, the interaction
\* counter at that moment, the device's sequence number after it
Logged(frame, vd1) ==
    [frame |-> frame, ic |-> interactionCount, after |-> vd1.sequenceNumber]

\* the Authentication, Association Request and Data frames of an interaction;
\* after the last Data frame the interaction is counted
SendInteractionFrame(D) ==
    /\ pc \in {"auth", "assoc", "data"}
    /\ \E payloadLen \in D.payloadLens, ok \in D.txResults :
       LET vd == activeSwarm[swarmIdx + 1]
           frame == CASE pc = "auth" -> buildAuthPacket(vd)
                      [] pc = "assoc" ->
                            buildAssocRequestPacket(vd, targetSSID, is5GHzBand)
                      [] OTHER -> buildEncryptedDataPacket(vd, payloadLen)
           vd1 == Bump(vd, 1)
       IN  IF pc = "data" /\ burstLeft = 0
           THEN /\ interactionCount' = interactionCount + 1
                /\ pc' = "beacon"
                /\ UNCHANGED <<lastTx, activeSwarm, ixLog, burstLeft>>
           ELSE /\ lastTx' = Sent(frame, radioPower, ok)
                /\ activeSwarm' = [activeSwarm EXCEPT ![swarmIdx + 1] = vd1]
                /\ ixLog' = Append(ixLog, Logged(frame, vd1))
                /\ burstLeft' = IF pc = "data" THEN burstLeft - 1 ELSE burstLeft
                /\ pc' = CASE pc = "auth" -> "authNoise"
                           [] pc = "assoc" -> "assocNoise"
                           [] OTHER -> "dataNoise"
                /\ interactionCount' = interactionCount
    /\ UNCHANGED <<radioChannel, radioPower, clockVars, ssidVars, meshVars,
                   lowMemoryMode, heapSeen, dormantSwarm, rotateLeft, rotCount,
                   bandVars,
                   swarmIdx, targetSSID, probeCount, lastProbe>>

\* fillSilenceWithNoise (part_003:1385-1430): the radio's power is set to
\* the noise floor and at least one noise probe goes out (every duration
\* passed is at least 1 ms); lastTx keeps the last of them.  After the
\* fill that follows the Association Request, burstCount is drawn.
FillSilenceWithNoise(D) ==
    /\ pc \in {"authNoise", "assocNoise", "dataNoise", "slotNoise"}
    /\ \E floor \in D.noiseFloor, hiddenRoll \in D.hiddenRolls,
          burstCount \in D.bursts, macByte \in D.noiseMacs,
          noiseLen \in D.noiseLens, ok \in D.txResults :
         LET noisePower == 68 + floor
         IN  /\ radioPower' = noisePower
             /\ lastTx' = Sent(NoiseFrame(is5GHzBand, hiddenRoll < 40, macByte,
                                         noiseLen), noisePower, ok)
             /\ burstLeft' = IF pc = "assocNoise" THEN burstCount ELSE burstLeft
    /\ packetsLeft' = IF pc = "slotNoise" THEN packetsLeft - 1 ELSE packetsLeft
    /\ ixLog' = IF pc = "slotNoise" THEN <<>> ELSE ixLog
    /\ pc' = CASE pc = "authNoise" -> "assoc"
               [] pc = "assocNoise" -> "data"
               [] pc = "dataNoise" -> "data"
               [] OTHER -> "slot"
    /\ UNCHANGED <<radioChannel, clockVars, ssidVars, poolVars, meshVars,
                   hardwareIsC5, currentChannel, is5GHzBand, idx2G, idx5G,
                   nextHopIs5G, hopCount, swarmIdx, targetSSID, interactionCount,
                   probeCount, lastProbe>>

BeaconChance(ssids) == IF Len(ssids) >= MAX_SSIDS_TO_LEARN THEN 5 ELSE 2

\* the fake beacon of a slot (part_003:2028-2046)
BeaconSlot(D) ==
    /\ pc = "beacon"
    /\ \E roll \in D.beaconRolls, pick \in D.picks, seqNum \in D.beaconSeqs,
          ok \in D.txResults :
         IF ENABLE_BEACON_EMULATION /\ roll < BeaconChance(activeSSIDs)
            /\ activeSSIDs # <<>>
         THEN LET beaconSSID == activeSSIDs[Min(pick, Len(activeSSIDs) - 1) + 1]
              IN  /\ radioPower' = MAX_TX_POWER
                  /\ lastTx' = Sent(buildBeaconPacket(beaconSSID, currentChannel,
                                        is5GHzBand, seqNum), MAX_TX_POWER, ok)
         ELSE UNCHANGED <<radioPower, lastTx>>
    /\ pc' = "slotNoise"
    /\ UNCHANGED <<radioChannel, clockVars, ssidVars, poolVars, meshVars,
                   bandVars, slotVars>>

\* if (currentMillis - lastUiUpdateTime > 2000) updateDisplayStats(): the
\* display reads sniffedPacketCount (part_003:1660-1662, 2057-2060)
UpdateDisplayStats(D) ==
    /\ pc = "ui"
    /\ \E due \in D.uiDue :
         shownSniffed' = IF due THEN sniffedPacketCount ELSE shownSniffed
    /\ pc' = "top"
    /\ UNCHANGED <<clockVars, ssidQueue, activeSSIDs, lastSsidLearnTime,
                   learnedInLoop,
                   sniffedPacketCount, rxDrops, poolVars, meshVars, radioVars,
                   bandVars, slotVars>>

\* ------------------------------------------------------------------------
\* The state after setup() (part_003:1040-1135, 1810-1845).  initSwarm
\* fills the active pool until TARGET_ACTIVE_POOL is reached or the free
\* heap falls under 20000, which can be after the first device; swarm is
\* the pool it built.
\* ------------------------------------------------------------------------
InitialSwarm(drawSeq) ==
    [i \in 1..Len(drawSeq) |->
        generateWeightedIdentity(i, drawSeq[i], NUM_SEED_SSIDS)]

\* the variables at the top of loop() at time t with the pools holding
\* swarm and parked and the store holding ssids, the last of them learned
\* at time 0, and everything else as setup() leaves it
StateWith(c5, swarm, parked, ssids, t) ==
    /\ pc = "top"
    /\ now = t
    /\ currentMillis = 0
    /\ ticked = FALSE
    /\ ssidQueue = <<>>
    /\ activeSSIDs = ssids
    /\ lastSsidLearnTime = 0
    /\ learnedInLoop = FALSE
    /\ sniffedPacketCount = 0
    /\ shownSniffed = 0
    /\ rxDrops = [ssid |-> 0, mesh |-> 0]
    /\ lowMemoryMode = FALSE
    /\ heapSeen = -1
    /\ activeSwarm = swarm
    /\ dormantSwarm = parked
    /\ rotateLeft = 0
    /\ rotCount = 0
    /\ meshQueue = <<>>
    /\ meshCache = <<>>
    /\ recentSenders = <<>>
    /\ isMeshDetected = FALSE
    /\ lastMeshPacketTime = 0
    /\ lastMeshCheckTime = 0
    /\ rxCb = "sniffer"
    /\ listenPolled = FALSE
    /\ lastMeshRx = -1
    /\ radioChannel = 1
    /\ radioPower = POWER_LEVELS[5]
    /\ hardwareIsC5 = c5
    /\ currentChannel = 1
    /\ is5GHzBand = FALSE
    /\ idx2G = 0
    /\ idx5G = 0
    /\ nextHopIs5G = TRUE
    /\ packetsLeft = 0
    /\ hopCount = 0
    /\ swarmIdx = 0
    /\ targetSSID = ""
    /\ burstLeft = 0
    /\ interactionCount = 0
    /\ probeCount = 0
    /\ ixLog = <<>>
    /\ lastProbe = [i \in 1..MaxDevices |-> NoProbe]
    /\ lastTx = Sent(NoFrame, POWER_LEVELS[5], TRUE)

\* the state at the first loop() with the pools as given
StateWithPools(c5, swarm, parked) ==
    StateWith(c5, swarm, parked, SEED_SSIDS, 0)

\* setup() parks nobody
Setup(c5, swarm) == StateWithPools(c5, swarm, <<>>)

\* ------------------------------------------------------------------------
\* SpecHop: the scheduler with a small swarm and a silent air.  The draws
\* are the ends of the ranges the code compares random() against.
\* ------------------------------------------------------------------------
HopDraws ==
    [hopDue |-> BOOLEAN, uiDue |-> BOOLEAN,
     hops |-> MaxHops, probes |-> MaxProbes,
     packets |-> {MIN_PACKETS_PER_HOP},
     relayRolls |-> {4, 5},
     ixRolls |-> {1, 2}, wildRolls |-> {39, 40}, picks |-> {0},
     gapRolls |-> {19, 20}, gapSteps |-> {2, 7},
     noiseFloor |-> {0, 5}, hiddenRolls |-> {40}, noiseMacs |-> {255},
     noiseLens |-> {5}, payloadLens |-> {64},
     bursts |-> {3, 11},
     beaconRolls |-> {1, 2}, beaconSeqs |-> {0}, txResults |-> {TRUE}]

HopRolls ==
    [idxs |-> Random(MaxDevices), swapRolls |-> {49}, steps |-> {50},
     powRolls |-> {30}, powSteps |-> {0}]

HopSwarms ==
    {InitialSwarm(<<a, b>>) :
        a \in {d \in IdentityDrawsFew(NUM_SEED_SSIDS) : d.roll = 75 /\ d.pIdx = 0},
        b \in {d \in IdentityDrawsFew(NUM_SEED_SSIDS) : d.pIdx = 4}}

InitHop ==
    \E c5 \in BOOLEAN, swarm \in HopSwarms : Setup(c5, swarm)

NextHop ==
    \/ LoopTop
    \/ DrainSsid
    \/ ManageResources({30000})
    \/ ManageMeshResources
    \/ LifecycleTick(BOOLEAN, MaxRotations)
    \/ ProcessLifecycle(IdentityDrawsFew(NUM_SEED_SSIDS), HopRolls)
    \/ MeshDecay
    \/ MeshCheck
    \/ HopTick(HopDraws)
    \/ HopSlot(HopDraws)
    \/ PickDevice(HopDraws)
    \/ SendInteractionFrame(HopDraws)
    \/ FillSilenceWithNoise(HopDraws)
    \/ BeaconSlot(HopDraws)
    \/ UpdateDisplayStats(HopDraws)

SpecHop == InitHop /\ [][NextHop]_vars

\* ------------------------------------------------------------------------
\* Properties of the scheduler
\* ------------------------------------------------------------------------
DeviceKinds == {"probe", "auth", "assoc", "data"}

HasTag(frame, id) == \E i \in 1..Len(frame.ies) : frame.ies[i].id = id

HasHeCaps(frame) ==
    \E i \in 1..Len(frame.ies) :
        /\ frame.ies[i].id = 255
        /\ frame.ies[i].len > 0
        /\ frame.ies[i].data[1] = 35

\* the device the slot in progress has picked
Picked == activeSwarm[swarmIdx + 1]

InSlotOfDevice ==
    /\ pc \in {"auth", "authNoise", "assoc", "assocNoise", "data", "dataNoise",
               "beacon"}
    /\ activeSwarm # <<>>

\* C1: in a slot on the 5 GHz band no probe, auth, association request or
\* data frame of a Legacy device is handed to the radio, and the slot in
\* which a Legacy device is picked ends at once: nothing is sent, nothing of
\* the device changes, the loop goes to its next slot.
C1_LegacySkippedOn5GHz ==
    [][ /\ (lastTx'.is5 /\ lastTx'.frame.kind \in DeviceKinds)
             => lastTx'.frame.gen # GEN_LEGACY
        /\ (/\ pc = "pick" /\ pc' # "pick"
            /\ is5GHzBand /\ activeSwarm # <<>>
            /\ activeSwarm[swarmIdx' + 1].generation = GEN_LEGACY)
             => (/\ pc' = "slot"
                 /\ packetsLeft' = packetsLeft - 1
                 /\ lastTx' = lastTx
                 /\ activeSwarm' = activeSwarm
                 /\ probeCount' = probeCount) ]_vars

\* a Legacy device has just been picked in a 5 GHz slot: the radio is at its
\* power and the loop is at the next slot, the last frame still being the
\* noise that closed an earlier slot
C1_Witness ==
    /\ pc = "slot"
    /\ is5GHzBand
    /\ packetsLeft < MIN_PACKETS_PER_HOP
    /\ activeSwarm # <<>>
    /\ Picked.generation = GEN_LEGACY
    /\ radioPower = Picked.txPower
    /\ lastTx.frame.kind = "noise"

\* C2: a probe request or association request of a device carries HT Caps
\* (tag 45) always, VHT Caps (tag 191) exactly when the device is not
\* Legacy, and the HE Caps extension element (tag 255, ExtID 35) exactly
\* when it is Modern.
C2_CapabilityIEsFollowGeneration ==
    lastTx.frame.kind \in {"probe", "assoc"} =>
        /\ HasTag(lastTx.frame, 45)
        /\ HasTag(lastTx.frame, 191) <=> (lastTx.frame.gen # GEN_LEGACY)
        /\ HasHeCaps(lastTx.frame) <=> (lastTx.frame.gen = GEN_MODERN)

\* an association request of a Common device went out: with VHT, without HE
C2_Witness ==
    /\ lastTx.frame.kind = "assoc"
    /\ lastTx.frame.gen = GEN_COMMON
    /\ HasTag(lastTx.frame, 191)
    /\ ~HasHeCaps(lastTx.frame)

\* C3: a frame of a device is handed to the radio while the radio's max
\* TX power is that device's txPower, the frames of an interaction included.
C3_DevicePowerAtTx ==
    (InSlotOfDevice /\ lastTx.frame.kind \in DeviceKinds
        /\ lastTx.frame.dev = Picked.id)
      => lastTx.power = Picked.txPower

\* the frames of the interaction in progress, as the radio got them
IxKind(i) == IF i = 1 THEN "auth" ELSE IF i = 2 THEN "assoc" ELSE "data"

IxLogWellFormed ==
    /\ \A i \in 1..Len(ixLog) :
         /\ ixLog[i].frame.kind = IxKind(i)
         /\ ixLog[i].frame.dev = Picked.id
         /\ ixLog[i].after = (ixLog[i].frame.seq + 1) % 4096
         /\ ixLog[i].ic = ixLog[1].ic
         /\ i > 1 => ixLog[i].frame.seq = ixLog[i - 1].after
    /\ Len(ixLog) >= 2 =>
         /\ HasTag(ixLog[2].frame, 48)
         /\ Picked.preferredSSIDIndex \in 0..(Len(activeSSIDs) - 1)
         /\ ixLog[2].frame.ssid = activeSSIDs[Picked.preferredSSIDIndex + 1]
    /\ Len(ixLog) <= 2 + 11
    /\ ixLog # <<>> => Picked.sequenceNumber = ixLog[Len(ixLog)].after

\* C4: an interaction is one Authentication frame, one Association Request
\* with the RSN element and the SSID at the device's preferred index, then
\* 3 to 11 Data frames, in this order and with no other frame of the device
\* between them; the device's sequence number goes up by 1 mod 4096 with
\* each, and the interaction counter by 1 with the sequence.
C4_InteractionSequence ==
    /\ (InSlotOfDevice \/ pc = "slotNoise") => IxLogWellFormed
    /\ (pc \in {"authNoise", "assoc", "assocNoise", "data", "dataNoise"}
        /\ lastTx.frame.kind \in DeviceKinds)
         => (ixLog # <<>> /\ lastTx.frame = ixLog[Len(ixLog)].frame)
    /\ (pc \in {"auth", "authNoise", "assoc", "assocNoise", "data", "dataNoise"}
        /\ ixLog # <<>>)
         => interactionCount = ixLog[1].ic
    /\ (pc \in {"beacon", "slotNoise"} /\ ixLog # <<>>)
         => (/\ Len(ixLog) \in (2 + 3)..(2 + 11)
             /\ interactionCount = ixLog[1].ic + 1)

\* an interaction with 11 Data frames has ended, across the wrap of the
\* sequence number
C4_Witness ==
    /\ pc = "beacon"
    /\ Len(ixLog) = 13
    /\ interactionCount = 1
    /\ ixLog[1].frame.seq > ixLog[13].frame.seq

\* the step from a probe to the next is 1 or 2..7 mod 4096
StepOk(h) == \E k \in 1..7 : h.cur = (h.prev + k) % 4096

\* C5 as stated: two successive probes of a device with no lifecycle
\* rotation of the device between them differ in sequence number by 1 or by
\* 2..7 mod 4096.
C5_ProbeStepNoRotation ==
    \A id \in 1..MaxDevices :
        (lastProbe[id].prev # -1 /\ lastProbe[id].cur # -1) => StepOk(lastProbe[id])

\* C5, amended: two successive probes of a device with neither a lifecycle
\* rotation nor an interaction sequence of the device between them differ in
\* sequence number by 1 or by 2..7 mod 4096.
C5_ProbeStep ==
    \A id \in 1..MaxDevices :
        (lastProbe[id].prev # -1 /\ lastProbe[id].cur # -1 /\ ~lastProbe[id].ix)
            => StepOk(lastProbe[id])

\* a device sent two probes in a row, the second after a gap of 7 that
\* wrapped the counter
C5_Witness ==
    \E id \in 1..MaxDevices :
        /\ lastProbe[id].prev # -1
        /\ ~lastProbe[id].ix
        /\ lastProbe[id].cur < lastProbe[id].prev
        /\ lastProbe[id].cur = (lastProbe[id].prev + 7) % 4096

\* ------------------------------------------------------------------------
\* SpecPools: the pools under lifecycle rotation and the resource governor.
\* The swarm starts with the seven devices initSwarm built before the heap
\* ran low; no channel hop falls due.
\* ------------------------------------------------------------------------
PoolDraw ==
    [roll |-> 82, ouiIdx |-> 0, genRoll |-> 0, pIdx |-> 4, privRoll |-> 85,
     macByte |-> 0, macTail |-> <<0, 20>>, seq |-> 4090, prefRoll |-> 99,
     prefIdx |-> 0]

PoolSwarm == InitialSwarm([i \in 1..7 |-> PoolDraw])

PoolDraws == [hopDue |-> {FALSE}, uiDue |-> {FALSE}]

\* idx and dIdx are drawn at the ends of their range
PoolRolls ==
    [idxs |-> {0, 5}, swapRolls |-> {49, 50}, steps |-> {50},
     powRolls |-> {29}, powSteps |-> {2}]

InitPools == Setup(FALSE, PoolSwarm)

NextPools ==
    \/ LoopTop
    \/ DrainSsid
    \/ ManageResources(HeapSamples)
    \/ ManageMeshResources
    \/ LifecycleTick(BOOLEAN, MaxPoolRotations)
    \/ ProcessLifecycle({PoolDraw}, PoolRolls)
    \/ MeshDecay
    \/ MeshCheck
    \/ HopTick(PoolDraws)
    \/ UpdateDisplayStats(PoolDraws)

SpecPools == InitPools /\ [][NextPools]_vars

NoRepeat(pool) ==
    \A i, j \in 1..Len(pool) : pool[i].id = pool[j].id => i = j

\* C6: after initialization and any run of processLifecycle calls and
\* governor prunes, no device is in both pools and none is twice in a pool.
C6_OnePoolPerDevice ==
    /\ NoRepeat(activeSwarm)
    /\ NoRepeat(dormantSwarm)
    /\ Ids(activeSwarm) \cap Ids(dormantSwarm) = {}

\* the governor has pruned both pools, a device is parked, and a device that
\* was parked is active again, its sequence number moved on by 50
C6_Witness ==
    /\ lowMemoryMode
    /\ dormantSwarm # <<>>
    /\ Len(activeSwarm) < 7
    /\ \E i \in 1..Len(activeSwarm) :
         activeSwarm[i].sequenceNumber = (4090 + 50) % 4096

\* ------------------------------------------------------------------------
\* SpecRotate: lifecycle ticks with the heap never short, so lowMemoryMode
\* stays off; a tick can make all of its seven calls.
\* ------------------------------------------------------------------------
NextRotate ==
    \/ LoopTop
    \/ DrainSsid
    \/ ManageResources({30000})
    \/ ManageMeshResources
    \/ LifecycleTick(BOOLEAN, MaxTickRotations)
    \/ ProcessLifecycle({PoolDraw}, PoolRolls)
    \/ MeshDecay
    \/ MeshCheck
    \/ HopTick(PoolDraws)
    \/ UpdateDisplayStats(PoolDraws)

SpecRotate == InitPools /\ [][NextRotate]_vars

\* a processLifecycle() call of the for loop
RotateStep == pc = "rotate" /\ rotateLeft > 0

\* one device has left active and one has arrived at its end
OneOutOneIn(before, after) ==
    /\ Len(after) = Len(before)
    /\ \E i \in 1..Len(before) :
         SubSeq(after, 1, Len(after) - 1) = RemoveAt(before, i)

\* C17: when lowMemoryMode is off and the active pool is not empty, a
\* lifecycle tick makes 3 to 7 processLifecycle calls, each of which removes
\* exactly one device from active and adds exactly one, so the pool's size
\* after the tick is its size before.
C17_RotationKeepsSize ==
    [][/\ (pc = "lifecycle" /\ pc' = "rotate") => rotateLeft' \in 3..7
       /\ RotateStep =>
            /\ rotateLeft' = rotateLeft - 1
            /\ pc' = "rotate"
            /\ (~lowMemoryMode /\ activeSwarm # <<>>)
                 => OneOutOneIn(activeSwarm, activeSwarm')
       /\ (pc = "rotate" /\ rotateLeft = 0)
            => (pc' = "decay" /\ UNCHANGED <<activeSwarm, dormantSwarm>>)]_vars

\* a tick of seven calls has ended with lowMemoryMode off; parked devices
\* have come back
C17_Witness ==
    /\ pc = "decay"
    /\ rotCount = 7
    /\ heapSeen = 30000
    /\ ~lowMemoryMode
    /\ Len(activeSwarm) = 7
    /\ \E i \in 1..Len(activeSwarm) :
         activeSwarm[i].sequenceNumber = (4090 + 50) % 4096

\* ------------------------------------------------------------------------
\* SpecRx: the RX callbacks against the main task.  Frames arrive between
\* any two steps of loop(); the clock runs far enough for the first mesh
\* listen window to open.
\* ------------------------------------------------------------------------
RxHorizon == 2 * TickMs

\* the bytes of "net0", "net1", "net2"
NetName(n) == <<110, 101, 116, 48 + (n % 3)>>

\* a probe request whose SSID element holds the bytes ssid
\* (frame[0] = fc, frame[24] = tag, frame[25] = len, frame[26..] = ssid);
\* sigLen is the number of octets received
ProbeFrame(ssid) ==
    [type |-> WIFI_PKT_MGMT, fc |-> 64, tag |-> 0, len |-> Len(ssid), ssid |-> ssid,
     sigLen |-> 26 + Len(ssid)]


\* what the air may deliver to snifferCallback, in the first TickMs: a
\* directed probe request at any time; a data frame, a beacon, a wildcard
\* probe and a probe for a seed SSID before any other management frame
SsidFramesRx ==
    IF now > 0 THEN {}
    ELSE {ProbeFrame(NetName(sniffedPacketCount))}
         \cup (IF sniffedPacketCount = 0
               THEN {[ProbeFrame(<<>>) EXCEPT !.type = "data"],
                     [ProbeFrame(<<>>) EXCEPT !.fc = 128],
                     ProbeFrame(<<>>),
                     ProbeFrame(<<72, 111, 109, 101>>)}    \* "Home"
               ELSE {})

ActionFrame(sender, body) ==
    [type |-> WIFI_PKT_MGMT, fc |-> 208, len |-> 40, cat |-> 127,
     oui |-> ESPRESSIF_OUI, sender |-> sender, body |-> body]

\* what the air may deliver to meshSnifferCallback: an ESP-NOW action frame
\* of a peer at any time; our own frame, a short frame and a frame of
\* another category while the queue is empty
MeshFramesRx ==
    {ActionFrame("peer", 1)}
    \cup (IF meshQueue = <<>>
          THEN {ActionFrame(LOCAL_MAC, 2),
                [ActionFrame("peer", 1) EXCEPT !.len = 39],
                [ActionFrame("peer", 1) EXCEPT !.cat = 4]}
          ELSE {})

RxDraws == [hopDue |-> {FALSE}, uiDue |-> {TRUE}]

InitRx == Setup(FALSE, PoolSwarm)

NextRx ==
    \/ Tick(RxHorizon)
    \/ LoopTop
    \/ DrainSsid
    \/ ManageResources({30000})
    \/ ManageMeshResources
    \/ LifecycleTick({FALSE}, 0)
    \/ MeshDecay
    \/ MeshCheck
    \/ ListenPoll
    \/ ListenEnd
    \/ HopTick(RxDraws)
    \/ UpdateDisplayStats(RxDraws)
    \/ snifferCallback(SsidFramesRx, MaxSniffed, MaxDrops)
    \/ meshSnifferCallback(MeshFramesRx, MaxDrops)

SpecRx == InitRx /\ [][NextRx]_vars

\* what loop() and the functions it calls read or write, the two queues
\* apart
mainTaskVars ==
    <<pc, currentMillis, activeSSIDs, lastSsidLearnTime, learnedInLoop,
      sniffedPacketCount, shownSniffed, poolVars, meshCache, recentSenders, isMeshDetected,
      lastMeshPacketTime, lastMeshCheckTime, radioVars, bandVars, slotVars>>

\* a step in which an RX callback has queued a record or lost it
RxStep ==
    \/ Len(ssidQueue') > Len(ssidQueue)
    \/ Len(meshQueue') > Len(meshQueue)
    \/ rxDrops' # rxDrops

\* C7: an RX callback only enqueues a record to ssidQueue or meshQueue; a
\* step of a callback changes no variable the main task reads or writes.
C7_CallbacksOnlyEnqueue == [][RxStep => UNCHANGED mainTaskVars]_vars

\* what the main task reads or writes, the frame counter of the probe
\* filter apart
mainTaskVarsButCount ==
    <<pc, currentMillis, activeSSIDs, lastSsidLearnTime, learnedInLoop,
      shownSniffed, poolVars,
      meshCache, recentSenders, isMeshDetected, lastMeshPacketTime,
      lastMeshCheckTime, radioVars, bandVars, slotVars>>

\* C8: ssidQueue never holds more than 20 records and meshQueue never more
\* than 5; a record offered to a full queue is dropped: the step leaves both
\* queues, their order, the position of the main task and its data (the
\* frame counter of the probe filter apart) as they were.
C8_QueuesBoundedDropNew ==
    /\ [](Len(ssidQueue) <= 20 /\ Len(meshQueue) <= 5)
    /\ [][rxDrops' # rxDrops
            => UNCHANGED <<ssidQueue, meshQueue, mainTaskVarsButCount>>]_vars

\* each queue has been full when a record came, and the mesh queue is
\* still full
C8_Witness ==
    /\ rxDrops.ssid > 0
    /\ rxDrops.mesh > 0
    /\ Len(meshQueue) = MESH_QUEUE_LENGTH
    /\ "net2" \in Range(activeSSIDs)

\* a frame that left the mesh queue in this step
Dequeued == meshQueue # <<>> /\ meshQueue' = Tail(meshQueue)

\* C11: the local MAC is never in recentSenders; a dequeued mesh frame whose
\* source address is the local MAC neither inserts nor refreshes an entry.
C11_NoSelfInRecentSenders ==
    /\ [](\A i \in 1..Len(recentSenders) : recentSenders[i].mac # LOCAL_MAC)
    /\ [][(Dequeued /\ Head(meshQueue).sender = LOCAL_MAC)
            => UNCHANGED recentSenders]_vars

\* our own frame is the only one received, and the listen loop has taken it
\* from the queue
C11_Witness ==
    /\ pc = "listen"
    /\ lastMeshRx >= 0
    /\ meshQueue = <<>>
    /\ meshCache = <<>>
    /\ recentSenders = <<>>

\* the bytes of an ESP-NOW action frame in a copied frame
IsMeshFrame(p) ==
    /\ p.fc = 208
    /\ p.len \in 40..1024
    /\ p.cat = 127
    /\ p.oui = <<24, 254, 52>>

\* C12: every meshCache entry is the copy of a received frame with Frame
\* Control byte 0xD0, length 40..1024, category 127 and the Espressif OUI,
\* whose source is not the local MAC, and so is every frame relayed; a
\* dequeued frame whose source is the local MAC changes neither meshCache nor
\* isMeshDetected nor lastMeshPacketTime.
C12_CacheHoldsFilteredFrames ==
    /\ [](/\ \A i \in 1..Len(meshCache) :
               /\ IsMeshFrame(meshCache[i].payload)
               /\ meshCache[i].payload.sender # LOCAL_MAC
          /\ \A i \in 1..Len(meshQueue) : IsMeshFrame(meshQueue[i]))
    /\ [][(Dequeued /\ Head(meshQueue).sender = LOCAL_MAC)
            => UNCHANGED <<meshCache, isMeshDetected, lastMeshPacketTime>>]_vars

\* a peer's frame is cached, and after it our own frame has been received
\* and taken from the queue
C12_Witness ==
    /\ pc = "listen"
    /\ Len(meshCache) = 1
    /\ meshQueue # <<>>
    /\ meshQueue[1].sender = LOCAL_MAC

\* ------------------------------------------------------------------------
\* SpecMesh: mesh traffic through the listen windows, the prune and the
\* decay.  Peers send payloads not seen before, a repeat of the latest one
\* and our own frame, none of them while the queue is full; the clock runs
\* past two decay timeouts.  The pools and the channel plan play no part
\* here: no lifecycle and no hop fall due.
\* ------------------------------------------------------------------------
MeshHorizon == MaxTicks * TickMs

Bodies(q) == {q[i].body : i \in 1..Len(q)}

LatestBody ==
    LET seen == Bodies(meshQueue) \cup {meshCache[i].payload.body :
                                       i \in 1..Len(meshCache)}
    IN  IF seen = {} THEN 0 ELSE CHOOSE b \in seen : \A c \in seen : c <= b

MeshFramesFill ==
    IF now > MaxRxTicks * TickMs THEN {}
    ELSE (IF LatestBody < MaxBodies
          THEN {ActionFrame("peer", LatestBody + 1)} ELSE {})
         \cup (IF meshQueue = <<>> /\ LatestBody > 0
               THEN {ActionFrame("peer", LatestBody)} ELSE {})
         \cup (IF meshQueue = <<>> /\ meshCache = <<>>
               THEN {ActionFrame(LOCAL_MAC, 0)} ELSE {})

MeshDraws == [hopDue |-> {FALSE}, uiDue |-> {FALSE}]

InitMesh == Setup(FALSE, PoolSwarm)

NextMesh ==
    \/ Tick(MeshHorizon)
    \/ LoopTop
    \/ DrainSsid
    \/ ManageResources({30000})
    \/ ManageMeshResources
    \/ LifecycleTick({FALSE}, 0)
    \/ MeshDecay
    \/ MeshCheck
    \/ ListenPoll
    \/ ListenEnd
    \/ HopTick(MeshDraws)
    \/ UpdateDisplayStats(MeshDraws)
    \/ meshSnifferCallback(MeshFramesFill, 0)

SpecMesh == InitMesh /\ [][NextMesh]_vars

\* C9: meshCache never holds more than 40 entries, whatever listen windows,
\* prunes and decays have run.
C9_MeshCacheAtMost40 == Len(meshCache) <= 40

\* the cache is full and its oldest entries have made room for newer ones
C9_Witness ==
    /\ Len(meshCache) = MAX_MESH_QUEUE_SIZE
    /\ meshCache[1].payload.body > 1
    /\ pc = "listen"

\* C10: once DECAY_TIMEOUT plus one listen period (taken as the longest
\* time between two listen windows, MESH_ACTIVE_INTERVAL_MS) has passed
\* since the last mesh frame reached the radio, meshCache is empty and
\* isMeshDetected is false.
C10_DecayedAfterLastFrame ==
    (lastMeshRx >= 0
     /\ now - lastMeshRx > MESH_DECAY_TIMEOUT_MS + MESH_ACTIVE_INTERVAL_MS)
        => (meshCache = <<>> /\ ~isMeshDetected)

\* ------------------------------------------------------------------------
\* SpecRelay: listen windows and channel hops together.  The swarm is the
\* one Legacy device initSwarm leaves when the heap is short after the
\* first identity; it has no preferred network, so it only probes, and on
\* 5 GHz it is skipped.  A peer's frame and our own arrive in the listen
\* windows; hops fall due or not.
\* ------------------------------------------------------------------------
RelayHorizon == 3 * TickMs

RelayDevice ==
    [roll |-> 75, ouiIdx |-> 0, genRoll |-> 0, pIdx |-> 0, privRoll |-> 0,
     macByte |-> 0, macTail |-> <<0, 20>>, seq |-> 4090, prefRoll |-> 99,
     prefIdx |-> 0]

RelaySwarm == InitialSwarm(<<RelayDevice>>)

RelayDraws ==
    [hopDue |-> BOOLEAN, uiDue |-> {FALSE},
     hops |-> MaxHops, probes |-> MaxProbes,
     packets |-> {MIN_PACKETS_PER_HOP},
     relayRolls |-> {4, 5},
     ixRolls |-> {2}, wildRolls |-> {40}, picks |-> {0},
     gapRolls |-> {20}, gapSteps |-> {2},
     noiseFloor |-> {0}, hiddenRolls |-> {40}, noiseMacs |-> {255},
     noiseLens |-> {5}, payloadLens |-> {64},
     bursts |-> {3},
     beaconRolls |-> {1, 2}, beaconSeqs |-> {0}, txResults |-> BOOLEAN]

InitRelay == \E c5 \in BOOLEAN : Setup(c5, RelaySwarm)

NextRelay ==
    \/ Tick(RelayHorizon)
    \/ LoopTop
    \/ DrainSsid
    \/ ManageResources({30000})
    \/ ManageMeshResources
    \/ LifecycleTick({FALSE}, 0)
    \/ MeshDecay
    \/ MeshCheck
    \/ ListenPoll
    \/ ListenEnd
    \/ HopTick(RelayDraws)
    \/ HopSlot(RelayDraws)
    \/ PickDevice(RelayDraws)
    \/ FillSilenceWithNoise(RelayDraws)
    \/ BeaconSlot(RelayDraws)
    \/ UpdateDisplayStats(RelayDraws)
    \/ meshSnifferCallback(MeshFramesRx, 0)

SpecRelay == InitRelay /\ [][NextRelay]_vars

\* a step in which the radio sends a relayed frame
Relays == lastTx' # lastTx /\ lastTx'.frame.kind = "relay"

\* C13: a cached message is rebroadcast only in a packet slot of a 2.4 GHz
\* hop whose channel is MESH_CHANNEL, only while meshCache is not empty; the
\* frame sent is one cached payload as it was stored, and it goes out with
\* the radio at MAX_TX_POWER.
C13_RelayOnlyOnMeshChannel ==
    [][Relays =>
         /\ pc = "slot"
         /\ packetsLeft > 0
         /\ ~is5GHzBand
         /\ currentChannel = MESH_CHANNEL
         /\ radioChannel = MESH_CHANNEL
         /\ meshCache # <<>>
         /\ \E i \in 1..Len(meshCache) :
              lastTx'.frame.fixed = <<meshCache[i].payload>>
         /\ radioPower' = MAX_TX_POWER
         /\ lastTx'.power = MAX_TX_POWER]_vars

\* a stored message has just been relayed
C13_Witness ==
    /\ pc = "pick"
    /\ lastTx.frame.kind = "relay"
    /\ meshCache # <<>>

\* C14: outside a listen window, once the hop of the iteration is decided,
\* the radio is on the scheduler's current channel: a mesh check leaves the
\* radio on the channel it found it on.
C14_RadioOnSchedulerChannel ==
    pc \notin {"listen", "hop"} => radioChannel = currentChannel

\* ------------------------------------------------------------------------
\* SpecGovernor: manageResources applied to pools of many sizes.  The passes
\* of loop() follow one another with no timer due, so the governor meets
\* the pools its earlier ticks have left; heapSeen is what it read.
\* ------------------------------------------------------------------------
\* n devices named from, from + 1, ...
Pool(from, n) ==
    [i \in 1..n |-> generateWeightedIdentity(from + i - 1, PoolDraw, NUM_SEED_SSIDS)]

\* pool sizes at which the share dropped is below, at and above the whole
\* percentages
ActiveSizes == {1, 6, 7, 13, 100, 120}
DormantSizes == {0, 3, 4, 10, 100, 120}

InitGovernor ==
    \E a \in ActiveSizes, d \in DormantSizes :
        StateWithPools(FALSE, Pool(1, a), Pool(a + 1, d))

NextGovernor ==
    \/ LoopTop
    \/ DrainSsid
    \/ ManageResources(HeapSamples)
    \/ ManageMeshResources
    \/ LifecycleTick({FALSE}, 0)
    \/ MeshDecay
    \/ MeshCheck
    \/ HopTick(PoolDraws)
    \/ UpdateDisplayStats(PoolDraws)

SpecGovernor == InitGovernor /\ [][NextGovernor]_vars

\* a call of manageResources
GovernorTick == pc = "govern" /\ pc' = "meshprune"

\* after is before without its first Len(before) - Len(after) devices
FromFront(before, after) ==
    /\ Len(after) <= Len(before)
    /\ after = SubSeq(before, Len(before) - Len(after) + 1, Len(before))

\* the devices removed are at least percent % of those there were
DroppedAtLeast(before, after, percent) ==
    100 * (Len(before) - Len(after)) >= percent * Len(before)

\* the devices removed are percent % of those there were, rounded down
DroppedFloor(before, after, percent) ==
    LET gone == Len(before) - Len(after)
    IN  100 * gone <= percent * Len(before) /\ percent * Len(before) < 100 * (gone + 1)

\* what a tick does whatever the heap: below 15000 the flag is set and both
\* pools lose devices at the front; from 25000 on the flag is cleared and
\* the pools stay
GovernorFrame ==
    /\ heapSeen' < 15000 =>
         /\ lowMemoryMode'
         /\ FromFront(dormantSwarm, dormantSwarm')
         /\ FromFront(activeSwarm, activeSwarm')
    /\ heapSeen' >= 25000 =>
         /\ ~lowMemoryMode'
         /\ UNCHANGED <<activeSwarm, dormantSwarm>>

\* C16: a governor tick that reads a free heap below 15000 sets
\* lowMemoryMode and removes, from the front, 30% of the dormant pool and
\* 15% of the active pool, both rounded down: at least 29% and 14% when the
\* pool holds 100 devices or more; a tick that reads 25000 or more removes
\* nothing and clears lowMemoryMode.
C16_GovernorDropsFloorShare ==
    [][GovernorTick =>
         /\ GovernorFrame
         /\ heapSeen' < 15000 =>
              /\ DroppedFloor(dormantSwarm, dormantSwarm', 30)
              /\ DroppedFloor(activeSwarm, activeSwarm', 15)
              /\ Len(dormantSwarm) >= 100
                   => DroppedAtLeast(dormantSwarm, dormantSwarm', 29)
              /\ Len(activeSwarm) >= 100
                   => DroppedAtLeast(activeSwarm, activeSwarm', 14)]_vars

\* C16 as stated: the shares of 29% and 14% are reached whatever the sizes
\* of the pools.
C16_GovernorDropsShareAnySize ==
    [][GovernorTick =>
         /\ GovernorFrame
         /\ heapSeen' < 15000 =>
              /\ DroppedAtLeast(dormantSwarm, dormantSwarm', 29)
              /\ DroppedAtLeast(activeSwarm, activeSwarm', 14)]_vars

\* pools of 120 have lost 36 and 18 devices in a tick that read 14000
C16_Witness ==
    /\ pc = "meshprune"
    /\ heapSeen = 14000
    /\ lowMemoryMode
    /\ Len(dormantSwarm) = 84
    /\ Len(activeSwarm) = 102
    /\ activeSwarm[1].id = 19

\* ------------------------------------------------------------------------
\* SpecLowHeap: the governor reads 14000 at every tick, and lifecycle ticks
\* fall due or not.  manageResources and processLifecycle are applied to
\* active pools of 0, 1 and 7 devices, with nobody or two devices parked,
\* and to one of 950, which a tick brings just above
\* LOW_MEMORY_ACTIVE_LIMIT.  setup() never leaves the active pool empty
\* (initSwarm, part_003:1339-1345, adds a device before it looks at the
\* heap) and neither function empties it, so the empty pool is an input of
\* the two functions only.
\* ------------------------------------------------------------------------
InitLowHeap ==
    \/ \E a \in {0, 1, 7}, d \in {0, 2} :
         StateWithPools(FALSE, Pool(1, a), Pool(a + 1, d))
    \/ StateWithPools(FALSE, Pool(MaxDevices + 1, 950), <<>>)

NextLowHeap ==
    \/ LoopTop
    \/ DrainSsid
    \/ ManageResources({14000})
    \/ ManageMeshResources
    \/ LifecycleTick(BOOLEAN, MaxTickRotations)
    \/ ProcessLifecycle({PoolDraw}, PoolRolls)
    \/ MeshDecay
    \/ MeshCheck
    \/ HopTick(PoolDraws)
    \/ UpdateDisplayStats(PoolDraws)

SpecLowHeap == InitLowHeap /\ [][NextLowHeap]_vars

MaxStoreFrames == 3

StoreFramesRx ==
    {ProbeFrame(NetName(sniffedPacketCount)),
     ProbeFrame(<<0, 110>>),
     ProbeFrame(<<110, 0, 116>>),
     ProbeFrame(<<110>>),
     ProbeFrame([i \in 1..31 |-> 110]),
     ProbeFrame([i \in 1..32 |-> 110])}

\* random(activeSSIDs.size()) returns the first index or the first index
\* after the seeds
StoreDraws ==
    [RelayDraws EXCEPT !.picks = {0, NUM_SEED_SSIDS}, !.txResults = {TRUE}]

InitStore == Setup(FALSE, Pool(1, 1))

NextStore ==
    \/ LoopTop
    \/ DrainSsid
    \/ ManageResources({30000})
    \/ ManageMeshResources
    \/ LifecycleTick({FALSE}, 0)
    \/ MeshDecay
    \/ MeshCheck
    \/ HopTick(StoreDraws)
    \/ HopSlot(StoreDraws)
    \/ PickDevice(StoreDraws)
    \/ FillSilenceWithNoise(StoreDraws)
    \/ BeaconSlot(StoreDraws)
    \/ UpdateDisplayStats(StoreDraws)
    \/ snifferCallback(StoreFramesRx, MaxStoreFrames, 0)

SpecStore == InitStore /\ [][NextStore]_vars

\* C19: every string of activeSSIDs is 1 to 32 bytes long, whatever SSID
\* bytes the sniffed probe requests carried; a name of length 0 or above 32
\* is never stored.
C19_StoredNamesHaveLength1To32 ==
    \A i \in 1..Len(activeSSIDs) : Len(activeSSIDs[i]) \in 1..32

\* C20: the last frame sent, when it is the probe request of a device that
\* is neither Legacy nor of platform Other, has an SSID element of length 1
\* or more, whatever the store holds and whatever the device prefers.
C20_NoWildcardFromModernDevice ==
    \A i \in 1..Len(activeSwarm) :
        (/\ lastTx.frame.kind = "probe"
         /\ lastTx.frame.dev = activeSwarm[i].id
         /\ activeSwarm[i].generation # GEN_LEGACY
         /\ activeSwarm[i].platform # PLATFORM_OTHER)
            => (Len(lastTx.frame.ssid) >= 1 /\ lastTx.frame.ies[1].len >= 1)

\* ------------------------------------------------------------------------
\* SpecStore90: the SSID store of the sketch in src/ghostwalk.cpp, whose
\* governor and sniffer differ from the ones above.  activeSSIDs is written
\* by initSwarm (ghostwalk.cpp:342), by manageResources, which loop() calls
\* first in every pass (ghostwalk.cpp:670), and by snifferCallback, which
\* learns in the driver's context with no queue between.
\* ------------------------------------------------------------------------
\* manageResources (ghostwalk.cpp:233-248)
manageResources90(freeHeap, active, dormant, ssids) ==
    IF freeHeap < 25000
    THEN [active |-> DropFront(active, (Len(active) * 10) \div 100),
          dormant |-> DropFront(dormant, (Len(dormant) * 20) \div 100),
          ssids |-> IF freeHeap < 15000 /\ Len(ssids) > 15
                    THEN DropFront(ssids, 5) ELSE ssids]
    ELSE [active |-> active, dormant |-> dormant, ssids |-> ssids]

ManageResources90(heaps) ==
    /\ pc = "top"
    /\ \E freeHeap \in heaps :
         LET r == manageResources90(freeHeap, activeSwarm, dormantSwarm,
                                    activeSSIDs)
         IN  /\ heapSeen' = freeHeap
             /\ activeSwarm' = r.active
             /\ dormantSwarm' = r.dormant
             /\ activeSSIDs' = r.ssids
    /\ UNCHANGED <<pc, clockVars, ssidQueue, lastSsidLearnTime, learnedInLoop,
                   sniffedPacketCount,
                   shownSniffed, rxDrops, lowMemoryMode, rotateLeft, rotCount,
                   meshVars, radioVars, bandVars, slotVars>>

\* snifferCallback (ghostwalk.cpp:251-277)
snifferCallback90(frames) ==
    /\ \E f \in frames :
         LET ssidStr == StringOf(f.ssid)
         IN  activeSSIDs' =
                 IF /\ ENABLE_PASSIVE_SCAN
                    /\ f.type = WIFI_PKT_MGMT
                    /\ f.fc = 64
                    /\ ENABLE_SSID_REPLICATION /\ Len(activeSSIDs) < 100
                    /\ f.tag = 0
                    /\ f.len > 1 /\ f.len < 32
                    /\ ssidStr \notin Range(activeSSIDs)
                 THEN Append(activeSSIDs, ssidStr)
                 ELSE activeSSIDs
    /\ UNCHANGED <<pc, clockVars, ssidQueue, lastSsidLearnTime, learnedInLoop,
                   sniffedPacketCount,
                   shownSniffed, rxDrops, poolVars, meshVars, radioVars, bandVars,
                   slotVars>>

NextStore90 ==
    \/ ManageResources90(HeapSamples)
    \/ snifferCallback90({ProbeFrame(NetName(n)) : n \in 0..2}
                         \cup {ProbeFrame(<<72, 111, 109, 101>>),     \* "Home"
                               [ProbeFrame(NetName(0)) EXCEPT !.fc = 128]})

SpecStore90 == InitPools /\ [][NextStore90]_vars

\* C18: whatever names were offered, whatever was replaced at the cap and
\* whatever the governor read, every seed SSID is in activeSSIDs at the
\* index initSwarm gave it.
C18_SeedsStayInPlace ==
    \A i \in 1..NUM_SEED_SSIDS :
        i <= Len(activeSSIDs) /\ activeSSIDs[i] = SEED_SSIDS[i]

\* ------------------------------------------------------------------------
\* SpecFrames: every frame the firmware puts on the air.  The swarm is one
\* device of any class the identity generator makes, with an OUI address or
\* a private one; it probes and runs interactions, beacons and noise fill
\* the slots, and a peer's frame is heard and relayed.
\* ------------------------------------------------------------------------
FrameIdentities ==
    [roll : {0, 40, 75, 82}, ouiIdx : {0}, genRoll : {0, 99}, pIdx : {4},
     privRoll : {0, 99}, macByte : {255}, macTail : {<<0, 20>>}, seq : {4090},
     prefRoll : {0},
     prefIdx : {0}]

FrameDraws ==
    [RelayDraws EXCEPT !.ixRolls = {1, 2}, !.wildRolls = {39, 40},
                       !.hiddenRolls = {39, 40}, !.noiseLens = {5, 11},
                       !.payloadLens = {511}, !.txResults = {TRUE}]

\* what the air delivers while SpecFrames listens: a peer's frames of the
\* longest length the filter lets through and of one octet more
FramesRx == {[ActionFrame("peer", 1) EXCEPT !.len = n] : n \in {1024, 1025}}

InitFrames ==
    \E c5 \in BOOLEAN, r \in FrameIdentities : Setup(c5, InitialSwarm(<<r>>))

NextFrames ==
    \/ Tick(RelayHorizon)
    \/ LoopTop
    \/ DrainSsid
    \/ ManageResources({30000})
    \/ ManageMeshResources
    \/ LifecycleTick({FALSE}, 0)
    \/ MeshDecay
    \/ MeshCheck
    \/ ListenPoll
    \/ ListenEnd
    \/ HopTick(FrameDraws)
    \/ HopSlot(FrameDraws)
    \/ PickDevice(FrameDraws)
    \/ SendInteractionFrame(FrameDraws)
    \/ FillSilenceWithNoise(FrameDraws)
    \/ BeaconSlot(FrameDraws)
    \/ UpdateDisplayStats(FrameDraws)
    \/ meshSnifferCallback(FramesRx, 0)

SpecFrames == InitFrames /\ [][NextFrames]_vars

\* the frames the builders make, by kind
BuiltKinds == {"probe", "auth", "assoc", "data", "noise", "beacon"}

\* C21: Addr2 of every frame a builder made is a unicast address: bit 0 of
\* its first octet is 0, for a device with an OUI address or a private one,
\* for the noise probe and for the fake beacon.
C21_BuiltFramesHaveUnicastSource ==
    lastTx.frame.kind \in BuiltKinds => lastTx.frame.addr2.b0 % 2 = 0

\* a device whose private address was drawn from 0xFF has sent a probe or
\* a Data frame
C21_Witness ==
    /\ lastTx.frame.kind \in {"probe", "data"}
    /\ lastTx.frame.addr2.b0 = 254


\* C22: no Deauthentication or Disassociation frame is sent and nothing
\* follows the Association Request but Data frames: the first Frame Control
\* octet of every frame a builder made is 0x40, 0x80, 0xB0, 0x00 or 0x88,
\* and every other frame sent is a cached mesh payload as it was stored.
C22_OnlyBenignFrameTypes ==
    /\ [](lastTx.frame.kind \in BuiltKinds \cup {"relay", "none"})
    /\ [](lastTx.frame.kind \in BuiltKinds
            => lastTx.frame.fc[1] \in {0, 64, 128, 136, 176})
    /\ [][(lastTx' # lastTx /\ lastTx'.frame.kind = "relay")
            => \E i \in 1..Len(meshCache) :
                  lastTx'.frame.fixed = <<meshCache[i].payload>>]_vars

\* an interaction has run to its end and a cached payload was relayed
\* after it
C22_Witness ==
    /\ interactionCount > 0
    /\ lastTx.frame.kind = "relay"
    /\ meshCache # <<>>


\* the element ids of a Probe Request, in the order the claim gives them
ProbeOrder(plat, gen) ==
    <<0, 1, 3>>
    \o (IF plat = PLATFORM_IOS THEN <<127>> ELSE <<>>)
    \o <<45>>
    \o (IF gen # GEN_LEGACY THEN <<191>> ELSE <<>>)
    \o (IF plat # PLATFORM_IOS /\ gen # GEN_LEGACY THEN <<127>> ELSE <<>>)
    \o (IF gen = GEN_MODERN THEN <<255>> ELSE <<>>)
    \o <<221>>
    \o (IF plat = PLATFORM_IOS THEN <<221>> ELSE <<>>)

\* the vendor elements of a frame that carry Apple's OUI 00:17:F2
AppleVendorAt(f) ==
    {i \in 1..Len(f.ies) :
        f.ies[i].id = 221 /\ SubSeq(f.ies[i].data, 1, 3) = <<0, 23, 242>>}

\* C23: a Probe Request carries its elements in the order SSID, Supported
\* Rates, DS Parameter, Apple Extended Capabilities (iOS), HT, VHT (not
\* Legacy), Extended Capabilities (neither iOS nor Legacy), HE (Modern), WFA
\* vendor, Apple vendor (iOS); an iOS probe has exactly one Apple vendor
\* element, after the WFA one, and any other probe has none.
C23_ProbeElementsInOrder ==
    lastTx.frame.kind = "probe" =>
        LET f == lastTx.frame
            vd == activeSwarm[1]
        IN  /\ vd.id = f.dev
            /\ [i \in 1..Len(f.ies) |-> f.ies[i].id]
                  = ProbeOrder(vd.platform, vd.generation)
            /\ AppleVendorAt(f) =
                  IF vd.platform = PLATFORM_IOS THEN {Len(f.ies)} ELSE {}
            /\ f.ies[Len(f.ies) - Cardinality(AppleVendorAt(f))].data
                  = WFA_VEND_PAYLOAD

\* a Modern iOS device has sent a probe: nine elements, the Apple vendor
\* element last
C23_Witness ==
    /\ lastTx.frame.kind = "probe"
    /\ activeSwarm[1].platform = PLATFORM_IOS
    /\ activeSwarm[1].generation = GEN_MODERN
    /\ Len(lastTx.frame.ies) = 9


\* C24: the elements carry the canonical payloads: HT Caps (45) is 26 bytes
\* beginning EF 01 1B FF FF with 01 at byte 15 and 00 elsewhere, the WFA
\* vendor element is 00 10 18 02 00 00 1C 00 00, VHT Caps (191) is 12
\* bytes, HE Caps 22 bytes after its extension id, the Apple vendor element
\* 7 bytes and RSN (48) 20 bytes.
C24_CanonicalPayloads ==
    \A i \in 1..Len(lastTx.frame.ies) :
        LET ie == lastTx.frame.ies[i]
        IN  /\ ie.len = Len(ie.data) \/ ie.id = 0
            /\ ie.id = 45 =>
                 /\ ie.len = 26
                 /\ SubSeq(ie.data, 1, 5) = <<239, 1, 27, 255, 255>>
                 /\ \A k \in 6..ie.len : ie.data[k] = IF k = 16 THEN 1 ELSE 0
            /\ (ie.id = 221 /\ i \notin AppleVendorAt(lastTx.frame)) =>
                 ie.data = <<0, 16, 24, 2, 0, 0, 28, 0, 0>>
            /\ i \in AppleVendorAt(lastTx.frame) => ie.len = 7
            /\ ie.id = 191 => ie.len = 12
            /\ ie.id = 255 => ie.len = 22 + 1
            /\ ie.id = 48 => ie.len = 20


\* uint8_t packetBuffer[1024]; uint8_t noiseBuffer[256]; and
\* uint8_t payload[1024] of a MeshPacket
PacketBufferSize == 1024
NoiseBufferSize == 256
MeshPayloadSize == 1024

\* C25: no builder writes past its buffer: a frame built into packetBuffer
\* is at most 1024 octets long, a noise probe at most 256, and a frame the
\* mesh callback copied is at most 1024 octets long.
C25_FramesFitTheirBuffers ==
    /\ lastTx.frame.kind \in BuiltKinds \ {"noise"}
          => FrameLen(lastTx.frame) <= PacketBufferSize
    /\ lastTx.frame.kind = "noise"
          => FrameLen(lastTx.frame) <= NoiseBufferSize
    /\ \A k \in 1..Len(meshQueue) : meshQueue[k].len <= MeshPayloadSize
    /\ \A k \in 1..Len(meshCache) : meshCache[k].payload.len <= MeshPayloadSize

\* the longest Data frame has gone out (24 + 2 + 511 octets) after a frame
\* of 1024 octets was copied from the air and cached
C25_Witness ==
    /\ lastTx.frame.kind = "data"
    /\ FrameLen(lastTx.frame) = 537
    /\ meshCache # <<>>
    /\ meshCache[1].payload.len = 1024


\* C26: when the radio driver refuses a frame the scheduler goes on and no
\* counter is stepped for that frame: not the total, not the band's, not
\* the junk counter, not the relay counter.
C26_FailedFramesAreNotCounted ==
    ~lastTx.ok => lastTx.counted = {}


\* ------------------------------------------------------------------------
\* SpecCap: the SSID store near its caps.  The store holds the seeds and
\* the names learned so far, the last of them at time 0; the clock reads a
\* time around LEARN_INTERVAL_MS or CYCLE_INTERVAL_MS and stands still
\* while a few probe requests arrive: for new names, each heard twice, for
\* a seed and for a name learned before.  The governor reads a heap above
\* or below its thresholds.
\* ------------------------------------------------------------------------
MaxCapFrames == 3

\* the bytes of the i-th learned name: "n001", "n002", ...
LearnedName(i) == <<110, 48 + (i \div 100), 48 + ((i \div 10) % 10), 48 + (i % 10)>>

\* the seeds and n - NUM_SEED_SSIDS learned names
StoreOf(n) ==
    SEED_SSIDS \o [i \in 1..(n - NUM_SEED_SSIDS) |-> StringOf(LearnedName(i))]

CapSizes ==
    {MAX_SSIDS_TO_LEARN - 1,
     MAX_SSIDS_TO_LEARN + CYCLE_CAP_BUFFER - 1,
     MAX_SSIDS_TO_LEARN + CYCLE_CAP_BUFFER}

CapTimes ==
    {LEARN_INTERVAL_MS - 1, LEARN_INTERVAL_MS,
     CYCLE_INTERVAL_MS - 1, CYCLE_INTERVAL_MS}

CapFramesRx ==
    {ProbeFrame(NetName(sniffedPacketCount \div 2)),
     ProbeFrame(<<72, 111, 109, 101>>),
     ProbeFrame(LearnedName(1))}

InitCap ==
    \E n \in CapSizes, t \in CapTimes :
        StateWith(FALSE, Pool(1, 1), <<>>, StoreOf(n), t)

NextCap ==
    \/ LoopTop
    \/ DrainSsid
    \/ ManageResources(HeapSamples)
    \/ ManageMeshResources
    \/ LifecycleTick({FALSE}, 0)
    \/ MeshDecay
    \/ MeshCheck
    \/ HopTick(PoolDraws)
    \/ UpdateDisplayStats(PoolDraws)
    \/ snifferCallback(CapFramesRx, MaxCapFrames, 0)

SpecCap == InitCap /\ [][NextCap]_vars

\* the drain loop takes a name from the queue in this step
Offered == pc = "drain" /\ ssidQueue # <<>> /\ ssidQueue' = Tail(ssidQueue)

\* the name it takes is unknown and the store accepts names
OfferedNew ==
    /\ Offered
    /\ ENABLE_SSID_REPLICATION /\ ~lowMemoryMode
    /\ \A k \in 1..Len(activeSSIDs) :
          activeSSIDs[k] # StringOf(Head(ssidQueue))

\* the store after this step has the name in one non-seed slot and is
\* otherwise as before
Replaced ==
    \E k \in (NUM_SEED_SSIDS + 1)..Len(activeSSIDs) :
        activeSSIDs' = [activeSSIDs EXCEPT ![k] = StringOf(Head(ssidQueue))]

\* C27: once the store holds MAX_SSIDS_TO_LEARN + CYCLE_CAP_BUFFER entries,
\* an unknown SSID never makes it larger: it replaces one non-seed slot if
\* and only if CYCLE_INTERVAL_MS have passed since the last insertion or
\* replacement, and is otherwise discarded; below that size it is appended.
C27_CyclesAtCapPlusBuffer ==
    [][OfferedNew =>
        IF Len(activeSSIDs) < MAX_SSIDS_TO_LEARN + CYCLE_CAP_BUFFER
        THEN activeSSIDs' = Append(activeSSIDs, StringOf(Head(ssidQueue)))
        ELSE IF USub(currentMillis, lastSsidLearnTime) >= CYCLE_INTERVAL_MS
        THEN Replaced /\ lastSsidLearnTime' = currentMillis
        ELSE UNCHANGED <<activeSSIDs, lastSsidLearnTime>>]_vars

\* C27 as stated: from MAX_SSIDS_TO_LEARN entries on the store does not
\* grow, and the unknown SSID replaces a non-seed slot if and only if
\* LEARN_INTERVAL_MS have passed.
C27_CyclesAtMaxSsidsToLearn ==
    [][(OfferedNew /\ Len(activeSSIDs) >= MAX_SSIDS_TO_LEARN) =>
        IF USub(currentMillis, lastSsidLearnTime) >= LEARN_INTERVAL_MS
        THEN Replaced
        ELSE UNCHANGED activeSSIDs]_vars

\* the full store has taken a new name into its last slot, CYCLE_INTERVAL_MS
\* after the name before it
C27_Witness ==
    /\ Len(activeSSIDs) = MAX_SSIDS_TO_LEARN + CYCLE_CAP_BUFFER
    /\ activeSSIDs[Len(activeSSIDs)] = "net0"
    /\ activeSSIDs[Len(activeSSIDs) - 1] = "n174"
    /\ lastSsidLearnTime = CYCLE_INTERVAL_MS


\* C28: the SSID store is a set: whatever names were offered and whatever
\* slots were replaced, no two of its entries are equal strings; offering a
\* name equal to an entry, seed or learned, changes nothing.
C28_StoreHasNoDuplicates ==
    /\ [](Cardinality(Range(activeSSIDs)) = Len(activeSSIDs))
    /\ [][(Offered /\ \E k \in 1..Len(activeSSIDs) :
                         activeSSIDs[k] = StringOf(Head(ssidQueue)))
            => UNCHANGED <<activeSSIDs, lastSsidLearnTime>>]_vars

\* with memory to spare three probe requests were heard and drained, for
\* "net0" twice and for a seed, and the store of 199 names took one
C28_Witness ==
    /\ sniffedPacketCount = 3
    /\ ssidQueue = <<>>
    /\ ~lowMemoryMode
    /\ heapSeen = 30000
    /\ Len(activeSSIDs) = MAX_SSIDS_TO_LEARN
    /\ activeSSIDs[MAX_SSIDS_TO_LEARN] = "net0"


\* C29: in an iteration of loop() in which the free heap is below 15000 no
\* learned SSID is accepted: once the governor has read such a heap, the
\* drain loop of the same iteration has left the store as it found it, also
\* in the first iteration in which the heap is that low.
C29_NoLearningInLowHeapIteration ==
    (pc \notin {"top", "drain", "govern"} /\ heapSeen < 15000)
        => ~learnedInLoop


\* what a processLifecycle() call in low-memory mode does in every case: the
\* leaving device is not parked, so no device is new in dormant, and with
\* more than LOW_MEMORY_ACTIVE_LIMIT devices left after the removal nobody
\* arrives
LowMemoryRotation ==
    /\ Len(dormantSwarm') <= Len(dormantSwarm)
    /\ Ids(dormantSwarm') \subseteq Ids(dormantSwarm)
    /\ Len(activeSwarm) - 1 > LOW_MEMORY_ACTIVE_LIMIT
          => /\ Len(activeSwarm') = Len(activeSwarm) - 1
             /\ dormantSwarm' = dormantSwarm

RearriveRolls ==
    [idxs |-> {0, 1}, swapRolls |-> {49, 50}, steps |-> {50, 499},
     powRolls |-> {29, 30}, powSteps |-> Random(3)]

EdgeDevice(id, pIdx) ==
    generateWeightedIdentity(id, [PoolDraw EXCEPT !.pIdx = pIdx], NUM_SEED_SSIDS)

InitRearrive ==
    StateWithPools(FALSE, <<EdgeDevice(1, 0), EdgeDevice(2, 5)>>,
                          <<EdgeDevice(3, 5), EdgeDevice(4, 0)>>)

NextRearrive ==
    \/ LoopTop
    \/ DrainSsid
    \/ ManageResources({30000})
    \/ ManageMeshResources
    \/ LifecycleTick(BOOLEAN, MaxRotations)
    \/ ProcessLifecycle({PoolDraw}, RearriveRolls)
    \/ MeshDecay
    \/ MeshCheck
    \/ HopTick(PoolDraws)
    \/ UpdateDisplayStats(PoolDraws)

SpecRearrive == InitRearrive /\ [][NextRearrive]_vars

Known(id) ==
    IF \E i \in 1..Len(dormantSwarm) : dormantSwarm[i].id = id
    THEN dormantSwarm[CHOOSE i \in 1..Len(dormantSwarm) : dormantSwarm[i].id = id]
    ELSE activeSwarm[CHOOSE i \in 1..Len(activeSwarm) : activeSwarm[i].id = id]

\* the device at the back of the active pool after the step is one the
\* pools held before it
BackFromDormant ==
    /\ RotateStep
    /\ activeSwarm' # <<>>
    /\ activeSwarm'[Len(activeSwarm')].id \in Ids(activeSwarm) \cup Ids(dormantSwarm)

PoolsInRange ==
    \A pool \in {activeSwarm, dormantSwarm} : \A i \in 1..Len(pool) :
        /\ pool[i].txPower \in MIN_TX_POWER..MAX_TX_POWER
        /\ pool[i].sequenceNumber \in 0..4095

\* C31: a device a processLifecycle() call brings back from the dormant pool
\* keeps its MAC, BSSID target, generation, platform and preferred SSID
\* index; its sequence number is (old + k) mod 4096 with k in 50..499, its
\* txPower is the old one moved by -2, 0 or +2 and clamped to [72, 82], and
\* hasConnected is false.  Every device of either pool has txPower in
\* [72, 82] and a sequence number in 0..4095.
C31_RearrivalKeepsIdentity ==
    /\ []PoolsInRange
    /\ [][BackFromDormant =>
            LET new == activeSwarm'[Len(activeSwarm')]
                old == Known(new.id)
            IN  /\ new.mac0 = old.mac0
                /\ StaAddr(new) = StaAddr(old)
                /\ BssidAddr(new) = BssidAddr(old)
                /\ new.generation = old.generation
                /\ new.platform = old.platform
                /\ new.preferredSSIDIndex = old.preferredSSIDIndex
                /\ \E k \in 50..499 :
                     new.sequenceNumber = (old.sequenceNumber + k) % 4096
                /\ \E d \in {-2, 0, 2} : new.txPower = Clamp(old.txPower + d)
                /\ new.hasConnected = FALSE]_vars

\* a device parked at 82 is active again, still at 82, with its
\* sequence number wrapped past 4095, and one parked at 72 is back at 74
C31_Witness ==
    /\ \E i \in 1..Len(activeSwarm) :
         /\ activeSwarm[i].id = 3
         /\ activeSwarm[i].txPower = MAX_TX_POWER
         /\ activeSwarm[i].sequenceNumber = (4090 + 499) % 4096
    /\ \E i \in 1..Len(activeSwarm) :
         /\ activeSwarm[i].id = 4
         /\ activeSwarm[i].txPower = MIN_TX_POWER + 2

\* ------------------------------------------------------------------------
\* SpecDedup: one listen window in which the cache fills up.  Peers send
\* payloads not seen before and, while the queue is empty and the cache
\* holds one entry or is full, a repeat of the payload at the front of the
\* cache, or a frame one byte longer than the only entry; millis() moves on
\* while the window is open.
\* ------------------------------------------------------------------------
MaxListenMs == 1        \* milliseconds the clock moves inside a window

\* millis() between two passes of the while loop of the listen window
ListenWait(maxMs) ==
    /\ pc = "listen"
    /\ now - currentMillis < maxMs
    /\ now - currentMillis < MESH_CHECK_DURATION_MS
    /\ now' = now + 1
    /\ UNCHANGED <<pc, currentMillis, ticked, ssidVars, poolVars, meshVars,
                   radioVars, bandVars, slotVars>>

DedupFramesRx ==
    (IF LatestBody < MaxBodies
     THEN {ActionFrame("peer", LatestBody + 1)} ELSE {})
    \cup (IF meshQueue = <<>> /\ Len(meshCache) \in {1, MAX_MESH_QUEUE_SIZE}
          THEN {ActionFrame("peer", meshCache[1].payload.body)} ELSE {})
    \cup (IF meshQueue = <<>> /\ Len(meshCache) = 1 /\ now = currentMillis
          THEN {[ActionFrame("peer", meshCache[1].payload.body)
                    EXCEPT !.len = 41]}
          ELSE {})

NextDedup ==
    \/ Tick(RxHorizon)
    \/ LoopTop
    \/ DrainSsid
    \/ ManageResources({30000})
    \/ ManageMeshResources
    \/ LifecycleTick({FALSE}, 0)
    \/ MeshDecay
    \/ MeshCheck
    \/ ListenPoll
    \/ ListenWait(MaxListenMs)
    \/ ListenEnd
    \/ HopTick(MeshDraws)
    \/ UpdateDisplayStats(MeshDraws)
    \/ meshSnifferCallback(DedupFramesRx, 0)

SpecDedup == InitMesh /\ [][NextDedup]_vars

\* a frame has left the mesh queue and reached the cache management
Cached == Dequeued /\ ~(Head(meshQueue).len >= 16 /\ IsSelf(Head(meshQueue)))

InCache(mp) == \E i \in 1..Len(meshCache) : meshCache[i].payload = mp

\* C32: no two meshCache entries have equal payloads; a dequeued frame equal
\* to an entry only sets that entry's lastSeen, the size and the order of
\* the cache staying as they were; a new frame goes to the back, and when
\* the cache holds 40 entries the front entry is removed first, whenever it
\* was last seen.
C32_CacheDedupAndFifo ==
    /\ [](\A i, j \in 1..Len(meshCache) :
            meshCache[i].payload = meshCache[j].payload => i = j)
    /\ [][Cached =>
            LET mp == Head(meshQueue)
            IN  IF InCache(mp)
                THEN /\ Len(meshCache') = Len(meshCache)
                     /\ \A i \in 1..Len(meshCache) :
                          /\ meshCache'[i].payload = meshCache[i].payload
                          /\ meshCache'[i].lastSeen =
                               IF meshCache[i].payload = mp
                               THEN now ELSE meshCache[i].lastSeen
                ELSE meshCache' =
                       Append(IF Len(meshCache) = MAX_MESH_QUEUE_SIZE
                              THEN Tail(meshCache) ELSE meshCache,
                              [payload |-> mp, lastSeen |-> now])]_vars

\* the oldest payload has made way for the 41st; the second, now at the
\* front of the full cache, has been seen again after the others were
\* cached, and a payload the cache does not hold waits in the queue
C32_Witness ==
    /\ Len(meshCache) = MAX_MESH_QUEUE_SIZE
    /\ meshCache[1].payload.body = 2
    /\ meshCache[1].lastSeen > meshCache[2].lastSeen
    /\ meshQueue # <<>>
    /\ ~InCache(Head(meshQueue))
    /\ pc = "listen"

\* ------------------------------------------------------------------------
\* SpecPlan: the channel plan over more than two rounds of both lists, on
\* either hardware.  The swarm is the one Legacy device of SpecRelay; no
\* mesh traffic, no lifecycle.  A hop falls due or not in an iteration of
\* loop(), and it does fall due again and again: millis() grows while
\* lastChannelHop and nextChannelHopInterval (below 300 ms) stay.
\* ------------------------------------------------------------------------
MaxPlanHops == 44

PlanDraws ==
    [RelayDraws EXCEPT !.hops = MaxPlanHops,
                       !.probes = MaxPlanHops * MIN_PACKETS_PER_HOP,
                       !.relayRolls = {5}, !.beaconRolls = {2},
                       !.txResults = {TRUE}]

PlanDue == [PlanDraws EXCEPT !.hopDue = {TRUE}]

NextPlan ==
    \/ LoopTop
    \/ DrainSsid
    \/ ManageResources({30000})
    \/ ManageMeshResources
    \/ LifecycleTick({FALSE}, 0)
    \/ MeshDecay
    \/ MeshCheck
    \/ HopTick(PlanDraws)
    \/ HopSlot(PlanDraws)
    \/ PickDevice(PlanDraws)
    \/ FillSilenceWithNoise(PlanDraws)
    \/ BeaconSlot(PlanDraws)
    \/ UpdateDisplayStats(PlanDraws)

SpecPlan ==
    /\ InitRelay
    /\ [][NextPlan]_vars
    /\ WF_vars(NextPlan)
    /\ SF_vars(HopTick(PlanDue))

\* a step that is a channel hop
HopStep == hopCount' = hopCount + 1

\* the for loop of a hop has ended, with two rounds of both lists still to
\* come
HopOver ==
    /\ pc = "ui"
    /\ hopCount \in 1..(MaxPlanHops - 2 * NUM_CHANNELS_2G)

\* the radio has just been tuned and no slot of the hop has passed
HopBegun == pc = "slot" /\ packetsLeft = MIN_PACKETS_PER_HOP

\* the channels the hardware hops over
Configured ==
    Range(CHANNELS_2G) \cup (IF hardwareIsC5 THEN Range(CHANNELS_5G) ELSE {})

\* C33: on dual-band hardware the hops take 5 GHz and 2.4 GHz in turn, the
\* first one 5 GHz, and on single-band hardware is5GHzBand is never true;
\* each band's channels are taken in list order, the first following the
\* last; after a hop is5GHzBand is true exactly when currentChannel is of
\* the 5 GHz list; every configured channel is tuned at some hop, and after
\* a hop on it has ended another hop tunes it again.
C33_BandsInTurnChannelsInOrder ==
    /\ [](~hardwareIsC5 => ~is5GHzBand)
    /\ [](hopCount > 0 =>
            (is5GHzBand <=> currentChannel \in Range(CHANNELS_5G)))
    /\ [][HopStep =>
            /\ hardwareIsC5 => is5GHzBand' = (IF hopCount = 0 THEN TRUE
                                               ELSE ~is5GHzBand)
            /\ currentChannel' =
                 IF is5GHzBand'
                 THEN CHANNELS_5G[((hopCount \div 2) % NUM_CHANNELS_5G) + 1]
                 ELSE IF hardwareIsC5
                 THEN CHANNELS_2G[((hopCount \div 2) % NUM_CHANNELS_2G) + 1]
                 ELSE CHANNELS_2G[(hopCount % NUM_CHANNELS_2G) + 1]]_vars
    /\ \A c \in Range(CHANNELS_2G) \cup Range(CHANNELS_5G) :
         /\ <>(c \in Configured => (hopCount > 0 /\ currentChannel = c))
         /\ (HopOver /\ currentChannel = c) ~> (HopBegun /\ currentChannel = c)

\* dual-band hardware has gone through both lists and is on the first
\* 5 GHz channel again, at its 19th hop
C33_Witness ==
    /\ hardwareIsC5
    /\ hopCount = 2 * NUM_CHANNELS_5G + 1
    /\ is5GHzBand
    /\ currentChannel = CHANNELS_5G[1]
    /\ idx2G = NUM_CHANNELS_5G

\* ------------------------------------------------------------------------
\* SpecIdentity: the identity generator over every entry of the four OUI
\* tables and both sides of every roll it compares.  initSwarm builds the
\* first device from any of these draws; the lifecycle then rotates Legacy
\* and Modern devices through the pools.
\* ------------------------------------------------------------------------
OuiTable(roll) ==
    IF roll < 40 THEN OUI_APPLE
    ELSE IF roll < 75 THEN OUI_SAMSUNG
    ELSE IF roll < 82 THEN OUI_LEGACY_IOT
    ELSE OUI_MODERN_GEN

IdentityWide ==
    {r \in [roll : RollSamples, ouiIdx : Random(Len(OUI_APPLE)),
            genRoll : {69, 70, 79, 80}, pIdx : {0},
            privRoll : {49, 50, 84, 85}, macByte : {0, 1, 253, 255},
            macTail : {<<0, 20>>, <<20, 56>>}, seq : {0}, prefRoll : {99},
            prefIdx : {0}] :
        r.ouiIdx < Len(OuiTable(r.roll))}

InitIdentity ==
    \E r \in IdentityWide : Setup(FALSE, InitialSwarm(<<r>>))

\* the identities generateWeightedIdentity gives the arriving devices: a
\* Legacy one and a Modern one
IdentityArrivals == {RelayDevice, PoolDraw}

NextIdentity ==
    \/ LoopTop
    \/ DrainSsid
    \/ ManageResources({30000})
    \/ ManageMeshResources
    \/ LifecycleTick(BOOLEAN, MaxRotations)
    \/ ProcessLifecycle(IdentityArrivals, PoolRolls)
    \/ MeshDecay
    \/ MeshCheck
    \/ HopTick(PoolDraws)
    \/ UpdateDisplayStats(PoolDraws)

SpecIdentity == InitIdentity /\ [][NextIdentity]_vars

\* bit 1 of mac[0]
LocallyAdministered(vd) == (vd.mac0 \div 2) % 2 = 1

MacPrefix(vd) == <<vd.mac0, vd.mac12[1], vd.mac12[2]>>

\* the OUI tables a device of this platform and generation can be drawn with
OuiPool(vd) ==
    IF vd.platform = PLATFORM_IOS THEN Range(OUI_APPLE)
    ELSE IF vd.platform = PLATFORM_OTHER THEN Range(OUI_LEGACY_IOT)
    ELSE IF vd.generation = GEN_COMMON THEN Range(OUI_SAMSUNG)
    ELSE Range(OUI_SAMSUNG) \cup Range(OUI_MODERN_GEN)

EraConsistent(vd) ==
    /\ vd.generation = GEN_LEGACY <=> vd.platform = PLATFORM_OTHER
    /\ vd.generation = GEN_LEGACY =>
          /\ MacPrefix(vd) \in Range(OUI_LEGACY_IOT)
          /\ ~LocallyAdministered(vd)
    /\ vd.platform = PLATFORM_IOS => vd.generation \in {GEN_COMMON, GEN_MODERN}
    /\ \/ LocallyAdministered(vd) /\ vd.generation # GEN_LEGACY
       \/ MacPrefix(vd) \in OuiPool(vd)

\* C34: every device of either pool is era-consistent: its generation is
\* Legacy exactly when its platform is Other; a Legacy device's MAC begins
\* with one of the 7 legacy OUIs and is not locally administered; an iOS
\* device is Common or Modern; the MAC of every device has the locally
\* administered bit set, the device not being Legacy, or begins with an OUI
\* of the table of its category.
C34_IdentitiesEraConsistent ==
    /\ Len(OUI_LEGACY_IOT) = 7
    /\ \A pool \in {activeSwarm, dormantSwarm} :
         \A i \in 1..Len(pool) : EraConsistent(pool[i])

\* an iOS device with a private address and a Legacy device are parked,
\* and the active device is a Modern one that begins with an OUI of its
\* table
C34_Witness ==
    /\ \E i, j \in 1..Len(dormantSwarm) :
         /\ dormantSwarm[i].platform = PLATFORM_IOS
         /\ LocallyAdministered(dormantSwarm[i])
         /\ dormantSwarm[j].generation = GEN_LEGACY
    /\ \E j \in 1..Len(activeSwarm) :
         /\ activeSwarm[j].generation = GEN_MODERN
         /\ MacPrefix(activeSwarm[j]) \in Range(OUI_MODERN_GEN)

\* the sequence numbers a receiver can read out of the Sequence Control
\* octets of a frame
SeqReadings(frame) == {n \in 0..4095 : SeqCtl(n) = frame.seqctl}

\* C35: the Sequence Control octets of a frame a device sends carry its
\* whole 12-bit sequence number: no other sequence number gives the same
\* two octets, so the receiver reads the device's number out of them.
C35_SeqCtlCarriesSequenceNumber ==
    lastTx.frame.kind \in DeviceKinds
        => SeqReadings(lastTx.frame) = {lastTx.frame.seq}

\* the for loop of a hop is running
InHop ==
    pc \in {"slot", "pick", "auth", "authNoise", "assoc", "assocNoise", "data",
            "dataNoise", "beacon", "slotNoise"}

\* the channels the DS Parameter Set elements of a frame name
DsChannels(frame) ==
    {frame.ies[i].data : i \in {j \in 1..Len(frame.ies) : frame.ies[j].id = 3}}

\* C36: every frame is sent with the radio on the scheduler's current
\* channel: while the for loop of a hop runs the radio stays on the channel
\* the hop tuned it to, and the DS Parameter Set of every probe request and
\* beacon names the channel the radio is on when the frame is sent.
C36_FramesSentOnCurrentChannel ==
    /\ [](InHop => radioChannel = currentChannel)
    /\ [][InHop => (radioChannel' = radioChannel
                    /\ currentChannel' = currentChannel)]_vars
    /\ [][lastTx' # lastTx =>
            /\ InHop
            /\ lastTx'.channel = currentChannel
            /\ lastTx'.channel = radioChannel
            /\ lastTx'.frame.kind \in {"probe", "beacon"} =>
                  DsChannels(lastTx'.frame) = {<<radioChannel>>}
            /\ DsChannels(lastTx'.frame) \subseteq {<<radioChannel>>}]_vars

\* a listen window has left the radio on the mesh channel, the hop after it
\* has tuned it to the first 5 GHz channel, and a probe has gone out there
C36_Witness ==
    /\ lastMeshCheckTime > 0
    /\ hopCount = 1
    /\ lastTx.frame.kind = "probe"
    /\ lastTx.channel = CHANNELS_5G[1]
    /\ radioChannel # MESH_CHANNEL

\* ------------------------------------------------------------------------
\* SpecIndex90: the reads of the SSID store by a device's preferred index in
\* the sketch in src/ghostwalk.cpp.  initSwarm has filled the store with
\* the seeds and then drawn the devices' preferred indexes from it
\* (ghostwalk.cpp:336-350); the governor runs first in every pass of loop()
\* and the sniffer learns between the passes.  Of a packet slot this
\* specification keeps what touches the pools, the counters and the store;
\* the frames go out through that sketch's own builders.
\* ------------------------------------------------------------------------
\* what a read behind the end of the vector yields when it yields a String
Garbage == "?"

\* activeSSIDs[i] of a std::vector<String>: an entry, or, with i outside the
\* vector, undefined behaviour: some String, or a fault
StoreRead90(ssids, i) ==
    IF i < Len(ssids)
    THEN {[ssid |-> ssids[i + 1], fault |-> FALSE]}
    ELSE {[ssid |-> Garbage, fault |-> FALSE], [ssid |-> "", fault |-> TRUE]}

\* a packet slot of loop() (ghostwalk.cpp:690-729): the interaction, or the
\* probe with the SSID logic of buildProbePacket (ghostwalk.cpp:506-531).
\* targetSSID is the String the slot read at a preferred index, "" if it
\* read none.
Slot90(D) ==
    /\ pc = "top"
    /\ activeSwarm # <<>>
    /\ \E idx \in Random(Len(activeSwarm)), ixRoll \in D.ixRolls,
          wildRoll \in D.wildRolls, burstCount \in D.bursts,
          gapRoll \in D.gapRolls, gapStep \in D.gapSteps :
         LET vd == activeSwarm[idx + 1]
             pref == vd.preferredSSIDIndex
             useWildcard ==
                 /\ (vd.generation = GEN_LEGACY \/ vd.platform = PLATFORM_OTHER)
                 /\ wildRoll < 40
         IN  /\ swarmIdx' = idx
             /\ IF ENABLE_INTERACTION_SIM /\ ixRoll < 2 /\ pref # -1
                THEN /\ interactionCount < MaxInteractions
                     /\ \E got \in StoreRead90(activeSSIDs, pref) :
                          /\ targetSSID' = got.ssid
                          /\ pc' = IF got.fault THEN "fault" ELSE pc
                          /\ IF got.fault
                             THEN UNCHANGED <<activeSwarm, interactionCount>>
                             ELSE /\ activeSwarm' =
                                       [activeSwarm EXCEPT ![idx + 1] =
                                           Bump([vd EXCEPT !.hasConnected = TRUE],
                                                2 + burstCount)]
                                  /\ interactionCount' = interactionCount + 1
                     /\ UNCHANGED probeCount
                ELSE /\ probeCount < MaxProbes
                     /\ IF ~useWildcard /\ pref # -1 /\ activeSSIDs # <<>>
                        THEN \E got \in StoreRead90(activeSSIDs, pref) :
                               /\ targetSSID' = got.ssid
                               /\ pc' = IF got.fault THEN "fault" ELSE pc
                               /\ IF got.fault
                                  THEN UNCHANGED <<activeSwarm, probeCount>>
                                  ELSE /\ activeSwarm' =
                                            [activeSwarm EXCEPT ![idx + 1] =
                                                Bump(vd, SeqStep(gapRoll, gapStep))]
                                       /\ probeCount' = probeCount + 1
                        ELSE /\ targetSSID' = ""
                             /\ pc' = pc
                             /\ activeSwarm' =
                                  [activeSwarm EXCEPT ![idx + 1] =
                                      Bump(vd, SeqStep(gapRoll, gapStep))]
                             /\ probeCount' = probeCount + 1
                     /\ UNCHANGED interactionCount
    /\ UNCHANGED <<clockVars, ssidVars, meshVars, radioVars, bandVars,
                   lowMemoryMode, heapSeen, dormantSwarm, rotateLeft, rotCount,
                   burstLeft, ixLog, lastProbe>>

IndexDraws == [RelayDraws EXCEPT !.ixRolls = {1, 2}, !.wildRolls = {39, 40}]

\* two devices: one prefers the first seed, one the last, and the second is
\* a Legacy device
InitIndex90 ==
    Setup(FALSE,
          InitialSwarm(<<[PoolDraw EXCEPT !.prefRoll = 0, !.prefIdx = 0],
                         [RelayDevice EXCEPT !.prefRoll = 0,
                                             !.prefIdx = NUM_SEED_SSIDS - 1]>>))

NextIndex90 ==
    \/ ManageResources90({14000, 30000})
    \/ snifferCallback90({ProbeFrame(NetName(n)) : n \in 0..1})
    \/ Slot90(IndexDraws)

SpecIndex90 == InitIndex90 /\ [][NextIndex90]_vars

\* a packet slot has picked a device
SlotStep90 ==
    \/ interactionCount' # interactionCount
    \/ probeCount' # probeCount
    \/ pc' = "fault"

\* C37: every read of the SSID store at a device's preferred index uses an
\* index i with 0 <= i < store size, after any learning and any governor
\* ticks: the slot reads the entry at that index, and no read faults.
C37_StoreReadsInRange ==
    [][SlotStep90 =>
         LET pref == activeSwarm[swarmIdx' + 1].preferredSSIDIndex
         IN  /\ pc' # "fault"
             /\ targetSSID' # "" =>
                   /\ pref \in 0..(Len(activeSSIDs) - 1)
                   /\ targetSSID' = activeSSIDs[pref + 1]]_vars

\* ------------------------------------------------------------------------
\* SpecShort: the probe filter against frames that end early.  The air
\* delivers a whole probe request, a probe request that ends after its
\* 24-octet header, and one whose SSID element announces six octets and
\* holds two.  What the callback finds behind the end of a frame is what
\* the receive buffer held before: here the octets of "junk" and "xxxx".
\* ------------------------------------------------------------------------
ShortFramesRx ==
    {ProbeFrame(NetName(0)),
     [ProbeFrame(<<106, 117, 110, 107>>) EXCEPT !.sigLen = 24],
     [ProbeFrame(<<110, 101>> \o <<120, 120, 120, 120>>) EXCEPT !.sigLen = 28]}

NextShort ==
    \/ LoopTop
    \/ DrainSsid
    \/ ManageResources({30000})
    \/ ManageMeshResources
    \/ LifecycleTick({FALSE}, 0)
    \/ MeshDecay
    \/ MeshCheck
    \/ HopTick(PoolDraws)
    \/ UpdateDisplayStats(PoolDraws)
    \/ snifferCallback(ShortFramesRx, MaxStoreFrames, 0)

SpecShort == InitStore /\ [][NextShort]_vars

\* the SSIDs of the frames that hold their SSID element whole
WholeSsids == {f.ssid : f \in {g \in ShortFramesRx : 26 + g.len <= g.sigLen}}

\* C38: the probe filter reads only octets of the received frame: every
\* record it queues is the SSID of a frame at least 26 + len octets long,
\* and the SSID with its terminator fits the 33 octets of the record.
C38_SnifferReadsWithinFrame ==
    \A i \in 1..Len(ssidQueue) :
        /\ ssidQueue[i] \in WholeSsids
        /\ Len(ssidQueue[i]) + 1 <= 33

\* ------------------------------------------------------------------------
\* SpecFull: lifecycle ticks and governor ticks over full pools.  initSwarm
\* has filled the active pool to TARGET_ACTIVE_POOL, and earlier rotations
\* have parked devices up to one below TARGET_DORMANT_POOL, or up to it.
\* ------------------------------------------------------------------------
FullRolls ==
    [idxs |-> {0}, swapRolls |-> {49, 50}, steps |-> {50},
     powRolls |-> {30}, powSteps |-> {1}]

InitFull ==
    \E d \in {TARGET_DORMANT_POOL - 1, TARGET_DORMANT_POOL} :
        StateWithPools(FALSE, Pool(MaxDevices + 1, TARGET_ACTIVE_POOL),
                       Pool(MaxDevices + 1 + TARGET_ACTIVE_POOL, d))

NextFull ==
    \/ LoopTop
    \/ DrainSsid
    \/ ManageResources({24000, 30000})
    \/ ManageMeshResources
    \/ LifecycleTick(BOOLEAN, MaxRotations)
    \/ ProcessLifecycle({PoolDraw}, FullRolls)
    \/ MeshDecay
    \/ MeshCheck
    \/ HopTick(PoolDraws)
    \/ UpdateDisplayStats(PoolDraws)

SpecFull == InitFull /\ [][NextFull]_vars

\* C39: the active pool never holds more than TARGET_ACTIVE_POOL (1500)
\* devices and the dormant pool never more than TARGET_DORMANT_POOL (3000),
\* whatever initSwarm, processLifecycle and the governor have done.
C39_PoolsWithinTargets ==
    /\ Len(activeSwarm) <= 1500
    /\ Len(dormantSwarm) <= 3000

\* both pools are full after a rotation: the dormant pool was one short,
\* the first call has filled it, and a later call has found it full
C39_Witness ==
    /\ Len(activeSwarm) = TARGET_ACTIVE_POOL
    /\ Len(dormantSwarm) = TARGET_DORMANT_POOL
    /\ dormantSwarm[1].id = MaxDevices + 1 + TARGET_ACTIVE_POOL
    /\ dormantSwarm[TARGET_DORMANT_POOL].id = MaxDevices + 1
    /\ rotCount >= 2

\* ------------------------------------------------------------------------
\* SpecDecay: listen windows, relays and the decay together.  The clock
\* runs past MESH_DECAY_TIMEOUT_MS, so that a detected mesh decays and is
\* detected again; a peer's frame and our own arrive in the listen windows.
\* ------------------------------------------------------------------------
DecayHorizon == MESH_DECAY_TIMEOUT_MS + 3 * TickMs

DecayDraws ==
    [RelayDraws EXCEPT !.beaconRolls = {2}, !.txResults = {TRUE}]

NextDecay ==
    \/ Tick(DecayHorizon)
    \/ LoopTop
    \/ DrainSsid
    \/ ManageResources({30000})
    \/ ManageMeshResources
    \/ LifecycleTick({FALSE}, 0)
    \/ MeshDecay
    \/ MeshCheck
    \/ ListenPoll
    \/ ListenEnd
    \/ HopTick(DecayDraws)
    \/ HopSlot(DecayDraws)
    \/ PickDevice(DecayDraws)
    \/ FillSilenceWithNoise(DecayDraws)
    \/ BeaconSlot(DecayDraws)
    \/ UpdateDisplayStats(DecayDraws)
    \/ meshSnifferCallback(MeshFramesRx, 0)

SpecDecay == InitRelay /\ [][NextDecay]_vars

Payloads(cache) == {cache[i].payload : i \in 1..Len(cache)}

\* C40: whenever meshCache is not empty, isMeshDetected is true: a step
\* that puts a payload into the cache also sets isMeshDetected, and the
\* step that clears isMeshDetected leaves the cache empty; so a cached
\* message is rebroadcast only while isMeshDetected is true.
C40_CacheImpliesDetected ==
    /\ [](meshCache # <<>> => isMeshDetected)
    /\ [][Payloads(meshCache') \ Payloads(meshCache) # {}
            => isMeshDetected']_vars
    /\ [][(isMeshDetected /\ ~isMeshDetected') => meshCache' = <<>>]_vars
    /\ [][Relays => isMeshDetected]_vars

\* a frame heard more than one decay timeout after the start is cached,
\* the mesh is marked as detected, and a cached message has just been relayed
C40_Witness ==
    /\ isMeshDetected
    /\ meshCache # <<>>
    /\ lastMeshPacketTime > MESH_DECAY_TIMEOUT_MS
    /\ lastTx.frame.kind = "relay"
    /\ pc = "pick"

====
